---------------------------- MODULE Spec2Model ----------------------------
(***************************************************************************)
(* ConvergsAI conversation core: the per-session sales funnel, the         *)
(* guardrails of a turn and the streaming demultiplexer of                 *)
(* SalesAgent.generate_stream (backend-python/app/agent/sales_agent.py).   *)
(*                                                                         *)
(* Text is a sequence of one-character strings, so that strip(), lower(),  *)
(* find() and slicing are computed as Python computes them.  The one       *)
(* element that is longer than a character is the tail of a JSON object:   *)
(* the document of an analysis A is spelled  {"intent"  followed by the    *)
(* single element ToString(A), which stands for the rest of the object's   *)
(* text ( : "...", ... } ).  That tail always follows the marker {"intent" *)
(* and so never sits in the demultiplexer's buffer while it is Speaking.   *)
(***************************************************************************)
EXTENDS Integers, Sequences, FiniteSets, TLC

VARIABLES
    history,              \* session_memory: the session's messages, in order
    metadata,             \* session_memory: key -> value of the session
    stage_turns,          \* session_memory: messages since the last stage transition
    pc,                   \* position of the turn: idle, streaming, done, raised
                          \* (an exception of generate_stream's own code), failed
                          \* (the generation call raised), abandoned (the
                          \* consumer stopped iterating)
    text,                 \* generate_stream's argument text
    stream,               \* what the generation service will send in this turn
    pos,                  \* characters of stream already received
    full_response_buffer, \* the tokens received, concatenated
    safeguard_buffer,
    is_parsing_analysis,
    tokens_yielded,
    yielded,              \* the chunks generate_stream has yielded, concatenated
    last_chunk,           \* the chunk yielded at the last token, <<>> when none
    final_stage,          \* the stage prepare_payload returned for this turn
    system_prompt,        \* the layers of the composed prompt, in order
    turn_no,              \* turns begun so far
    advanced_to,          \* the stages advance_stage was called with in this turn
    rival,                \* a second generate_stream call on the same session
    before,               \* the session's metadata when the turn was called
    session_store,        \* session_memory of the process: session id -> the
                          \* messages recorded under it, each with the
                          \* conversation it came from
    sessions,             \* the sessions the process holds: session id -> <<>>
                          \* when absent, <<its metadata>> when created
    response,             \* what the last request returned to its caller
    nudged,               \* the prompts composed with the stall nudge since the
                          \* stored stage last changed
    voice,                \* the SalesLLM of a voice room and its running
                          \* SalesLLMStream: the chat context, the run's
                          \* locals and its event channel
    legacy                \* the sessions of the legacy SalesAgent
                          \* (agents/sales_agent.py): <<>> when the session is
                          \* absent, <<the ConversationSession>> when present

vars == <<history, metadata, stage_turns, pc, text, stream, pos,
          full_response_buffer, safeguard_buffer, is_parsing_analysis,
          tokens_yielded, yielded, last_chunk, final_stage, system_prompt,
          turn_no, advanced_to, rival, before, session_store, sessions, response, nudged,
                   voice, legacy>>

----------------------------------------------------------------------------
(* Python str operations on sequences of characters *)

Whitespace == {" ", "\n"}

LowerChar(c) ==
    CASE c = "A" -> "a" [] c = "N" -> "n" [] c = "L" -> "l" [] c = "Y" -> "y"
      [] c = "S" -> "s" [] c = "I" -> "i" [] c = "H" -> "h" [] c = "O" -> "o"
      [] c = "E" -> "e" [] c = "T" -> "t" [] c = "W" -> "w"
      [] OTHER -> c

\* str.lower()
Lower(s) == [i \in 1..Len(s) |-> LowerChar(s[i])]

\* s[a:b] for 0 <= a, b (Python slice, end exclusive)
Slice(s, a, b) == SubSeq(s, a + 1, IF b > Len(s) THEN Len(s) ELSE b)

\* p in s
Contains(s, p) ==
    \E i \in 0..(Len(s) - Len(p)) : SubSeq(s, i + 1, i + Len(p)) = p

\* s.find(p): the first index (from 0), -1 when absent
Find(s, p) ==
    LET hits == {i \in 0..(Len(s) - Len(p)) : SubSeq(s, i + 1, i + Len(p)) = p}
    IN  IF hits = {} THEN -1 ELSE CHOOSE i \in hits : \A j \in hits : i <= j

\* s.rfind(" ")
RFindSpace(s) ==
    LET hits == {i \in 0..(Len(s) - 1) : s[i + 1] = " "}
    IN  IF hits = {} THEN -1 ELSE CHOOSE i \in hits : \A j \in hits : i >= j

\* p.startswith(s)
StartsWith(p, s) == Len(s) <= Len(p) /\ SubSeq(p, 1, Len(s)) = s

\* str.strip()
Strip(s) ==
    LET keep == {i \in 1..Len(s) : s[i] \notin Whitespace}
    IN  IF keep = {} THEN <<>>
        ELSE LET lo == CHOOSE i \in keep : \A j \in keep : i <= j
                 hi == CHOOSE i \in keep : \A j \in keep : i >= j
             IN  SubSeq(s, lo, hi)

----------------------------------------------------------------------------
(* The stream demultiplexer: the body of generate_stream's token loop *)

SAFEGUARD_SIZE == 25

\* tokens_yielded < 10: the window of the latency rule
LATENCY_TOKENS == 10

analysis_patterns ==
    << <<"<","a","n","a","l","y","s","i","s">>,
       <<"a","n","a","l","y","s","i","s",":">>,
       <<"{","\"","i","n","t","e","n","t","\"">>,
       <<"\"","i","n","t","e","n","t","\"",":">> >>

\* the punctuation of the latency rule
WordEnds == {" ", ".", "!", "?", "\n"}

\* for p in analysis_patterns: if p in lower_buf: found_tag = p; break
\* (the first pattern of the list that occurs, 0 when none does)
FoundTag(lower_buf) ==
    LET hits == {k \in 1..Len(analysis_patterns) :
                    Contains(lower_buf, analysis_patterns[k])}
    IN  IF hits = {} THEN 0 ELSE CHOOSE k \in hits : \A j \in hits : k <= j

\* not any(p.startswith(lower_buf.strip()) for p in analysis_patterns)
NoTagRisk(lower_buf) ==
    \A k \in 1..Len(analysis_patterns) :
        ~ StartsWith(analysis_patterns[k], Strip(lower_buf))

\* tokens_yielded < 10 and any(p in safeguard_buffer for p in [" ", ".", ...])
LatencyWindow(count, buf) ==
    count < LATENCY_TOKENS /\ \E i \in 1..Len(buf) : buf[i] \in WordEnds

\* DemuxStep with the latency rule forgetting `safeguard_buffer = ""`
DemuxStep_KeepBuffer(buf, count) ==
    LET lower_buf == Lower(buf)
        found_tag == FoundTag(lower_buf)
    IN  IF found_tag # 0
        THEN [buf |-> <<>>, parsing |-> TRUE,
              chunk |-> Slice(buf, 0, Find(lower_buf, analysis_patterns[found_tag]))]
        ELSE IF LatencyWindow(count, buf) /\ NoTagRisk(lower_buf)
        THEN [buf |-> buf, parsing |-> FALSE, chunk |-> buf]
        ELSE IF Len(buf) > SAFEGUARD_SIZE
        THEN LET yield_len == Len(buf) - SAFEGUARD_SIZE
                 last_space == RFindSpace(Slice(buf, 0, yield_len))
             IN  IF last_space # -1
                 THEN [buf |-> Slice(buf, last_space + 1, Len(buf)),
                       parsing |-> FALSE,
                       chunk |-> Slice(buf, 0, last_space + 1)]
                 ELSE [buf |-> Slice(buf, yield_len, Len(buf)),
                       parsing |-> FALSE,
                       chunk |-> Slice(buf, 0, yield_len)]
        ELSE [buf |-> buf, parsing |-> FALSE, chunk |-> <<>>]

\* One iteration of the loop in the Speaking state, on the buffer that already
\* holds the token; count is tokens_yielded after its increment.
\* The result: the buffer kept, whether the analysis began, the chunk yielded.
DemuxStep(buf, count) ==
    LET lower_buf == Lower(buf)
        found_tag == FoundTag(lower_buf)
    IN  IF found_tag # 0
        THEN [buf |-> <<>>, parsing |-> TRUE,
              chunk |-> Slice(buf, 0, Find(lower_buf, analysis_patterns[found_tag]))]
        ELSE IF LatencyWindow(count, buf) /\ NoTagRisk(lower_buf)
        THEN [buf |-> <<>>, parsing |-> FALSE, chunk |-> buf]
        ELSE IF Len(buf) > SAFEGUARD_SIZE
        THEN LET yield_len == Len(buf) - SAFEGUARD_SIZE
                 last_space == RFindSpace(Slice(buf, 0, yield_len))
             IN  IF last_space # -1
                 THEN [buf |-> Slice(buf, last_space + 1, Len(buf)),
                       parsing |-> FALSE,
                       chunk |-> Slice(buf, 0, last_space + 1)]
                 ELSE [buf |-> Slice(buf, yield_len, Len(buf)),
                       parsing |-> FALSE,
                       chunk |-> Slice(buf, 0, yield_len)]
        ELSE [buf |-> buf, parsing |-> FALSE, chunk |-> <<>>]

----------------------------------------------------------------------------
(* Python values held in the session's metadata and in a parsed analysis *)

NoneV == [t |-> "none"]
StrV(s) == [t |-> "str", s |-> s]
BoolV(b) == [t |-> "bool", b |-> b]
IntV(n) == [t |-> "int", n |-> n]
StageV(e) == [t |-> "stage", e |-> e]
Dict(d) == [t |-> "dict", d |-> d]

\* Python truthiness: `not val`, `x or default`
Truthy(v) ==
    CASE v.t = "none" -> FALSE
      [] v.t = "str" -> v.s # ""
      [] v.t = "bool" -> v.b
      [] v.t = "int" -> v.n # 0
      [] OTHER -> TRUE

----------------------------------------------------------------------------
(* Stage model: app/agent/stages.py, transitions.py and intelligence.py *)

GREETING == "greeting"
QUALIFICATION == "qualification"
PROBLEM == "problem"
SOLUTION == "solution"
OBJECTION == "objection"
CLOSING == "closing"

SalesStage == {GREETING, QUALIFICATION, PROBLEM, SOLUTION, OBJECTION, CLOSING}

\* ALLOWED_TRANSITIONS.get(stage, []): the successors, the default one first
ALLOWED_TRANSITIONS(stage) ==
    CASE stage = GREETING -> <<QUALIFICATION>>
      [] stage = QUALIFICATION -> <<PROBLEM>>
      [] stage = PROBLEM -> <<SOLUTION>>
      [] stage = SOLUTION -> <<OBJECTION>>
      [] stage = OBJECTION -> <<CLOSING>>
      [] OTHER -> <<>>

\* EXIT_CONDITIONS.get(stage, []): the metadata fields a stage needs to be left
EXIT_CONDITIONS(stage) ==
    CASE stage = QUALIFICATION -> <<"role", "company">>
      [] stage = PROBLEM -> <<"role", "company", "pain_points">>
      [] stage = SOLUTION -> <<"value_accepted">>
      [] stage = OBJECTION -> <<"concerns_addressed">>
      [] stage = CLOSING -> <<"meeting_intent">>
      [] OTHER -> <<>>

\* ALLOWED_ADVANCE_INTENTS.get(stage, set())
ALLOWED_ADVANCE_INTENTS(stage) ==
    CASE stage = GREETING -> {"greeting", "providing_info", "sharing_pain", "affirmation", "interest"}
      [] stage = QUALIFICATION -> {"providing_info", "sharing_pain", "affirmation", "interest"}
      [] stage = PROBLEM -> {"providing_info", "sharing_pain", "affirmation", "interest"}
      [] stage = SOLUTION -> {"affirmation", "interest", "pricing_query"}
      [] stage = OBJECTION -> {"affirmation", "interest", "clarification"}
      [] OTHER -> {}

PRICING_GATE_METADATA_KEY == "value_presented"
SESSION_END_KEY == "session_locked"

\* the intent vocabulary of the analysis contract
INTENTS ==
    {"greeting", "providing_info", "sharing_pain", "interest", "affirmation",
     "objection", "clarification", "pricing_query", "curiosity", "evasion",
     "other"}

----------------------------------------------------------------------------
(* Session store: app/agent/memory.py (session_memory) *)

FactKeys ==
    {"role", "company", "pain_points", "value_accepted", "concerns_addressed",
     "meeting_intent", "meeting_locked"}

MetaKeys ==
    FactKeys \cup
    {"stage", PRICING_GATE_METADATA_KEY, SESSION_END_KEY, "greeting_loop_count",
     "last_analysis", "mode_type", "persona_name", "custom_prompt"}

\* _ensure_defaults: a new session is in the first stage and knows nothing
DefaultMetadata ==
    [k \in MetaKeys |-> IF k = "stage" THEN StageV(GREETING) ELSE NoneV]

get_metadata(md, key) == md[key]

set_metadata(md, key, val) == [md EXCEPT ![key] = val]

add_message(h, role, content) == Append(h, [role |-> role, content |-> content])

\* advance_stage that stores the new stage and keeps the turn counter
advance_stage_KeepTurns(st, new_stage) ==
    [md |-> set_metadata(st.md, "stage", StageV(new_stage)), turns |-> st.turns,
     moved |-> Append(st.moved, new_stage)]

\* advance_stage: the new stage is stored and the turn counter starts again
advance_stage(st, new_stage) ==
    [md |-> set_metadata(st.md, "stage", StageV(new_stage)), turns |-> 0,
     moved |-> Append(st.moved, new_stage)]

\* a conversion that takes any unknown string for the first stage
ToStage_Lenient(v) ==
    CASE v.t = "stage" -> v.e
      [] v.t = "str" /\ v.s \in SalesStage -> v.s
      [] OTHER -> GREETING

\* SalesStage(value): the stage a stored value names, "ValueError" when none
ToStage(v) ==
    CASE v.t = "stage" -> v.e
      [] v.t = "str" /\ v.s \in SalesStage -> v.s
      [] OTHER -> "ValueError"

----------------------------------------------------------------------------
(* The analysis: the JSON object the generator appends to its reply *)

OPEN_TAG == <<"<","a","n","a","l","y","s","i","s",">">>
CLOSE_TAG == <<"<","/","a","n","a","l","y","s","i","s",">">>
OBJECT_HEAD == <<"{","\"","i","n","t","e","n","t","\"">>

Absent == [t |-> "absent"]

\* the dict of the `else` branch (no <analysis> pair)
DefaultAnalysis ==
    [intent |-> "other", extracted_info |-> Dict([k \in {} |-> NoneV]),
     is_vague |-> "False", recommended_action |-> "stay"]

\* the dict of the `except` branch (json.loads failed)
FallbackAnalysis ==
    [intent |-> "other", extracted_info |-> Dict([k \in {} |-> NoneV]),
     is_vague |-> "absent", recommended_action |-> "stay"]

\* json.loads("{}")
EmptyObject ==
    [intent |-> "None", extracted_info |-> Absent,
     is_vague |-> "absent", recommended_action |-> "None"]

\* The extracted_info values the generator sends in the model's turns.
InfoNothing == Dict([k \in {} |-> NoneV])
InfoIdentity == Dict([k \in {"role", "company"} |-> IF k = "role" THEN StrV("cto") ELSE StrV("acme")])
InfoPain == Dict([k \in {"pain_points"} |-> StrV("missed calls")])
InfoValue == Dict([k \in {"value_accepted"} |-> BoolV(TRUE)])
InfoMeeting == Dict([k \in {"concerns_addressed", "meeting_intent", "meeting_locked"} |-> BoolV(TRUE)])
InfoNulls == Dict([k \in {"role", "company", "pain_points"} |-> NoneV])
InfoStage == Dict([k \in {"stage"} |-> StrV(GREETING)])
InfoBadStage == Dict([k \in {"stage"} |-> StrV("negotiation")])
InfoClosing == Dict([k \in {"stage", "meeting_locked"} |-> IF k = "stage" THEN StrV(CLOSING) ELSE BoolV(TRUE)])
InfoProblem == Dict([k \in {"role", "company", "pain_points"} |-> IF k = "role" THEN StrV("cto") ELSE IF k = "company" THEN StrV("acme") ELSE StrV("missed calls")])

Analysis(intent, action, info) ==
    [intent |-> intent, extracted_info |-> info,
     is_vague |-> "False", recommended_action |-> action]

\* the analyses of the turns of Spec
TurnAnalyses ==
    { Analysis("other", "stay", InfoNothing),
      Analysis("pricing_query", "stay", InfoNothing),
      Analysis("affirmation", "stay", InfoNothing),
      Analysis("sharing_pain", "stay", InfoNothing),
      Analysis("sharing_pain", "advance", InfoPain),
      Analysis("objection", "advance", InfoIdentity),
      Analysis("providing_info", "advance", InfoNothing),
      Analysis("interest", "advance", InfoNulls),
      Analysis("affirmation", "advance", InfoValue),
      Analysis("affirmation", "advance", InfoMeeting),
      Analysis("other", "stay", InfoStage),
      Analysis("other", "advance", InfoClosing) }

\* the analyses of the streams of SpecStream
A_advance == Analysis("interest", "advance", InfoIdentity)
A_jump == Analysis("sharing_pain", "stay", InfoPain)
A_null_info == Analysis("interest", "advance", NoneV)
A_text_info == Analysis("interest", "advance", StrV("n/a"))
A_bad_stage == Analysis("other", "stay", InfoBadStage)
A_problem == Analysis("providing_info", "advance", InfoProblem)

KnownAnalyses ==
    TurnAnalyses \cup {A_advance, A_jump, A_null_info, A_text_info, A_bad_stage, A_problem}

\* json.dumps(A): the object's text
Json(A) == Append(OBJECT_HEAD, ToString(A))

\* json.loads(s): the parsed value; [t |-> "error"] stands for a JSONDecodeError
JsonLoads(s) ==
    IF Len(s) = Len(OBJECT_HEAD) + 1 /\ SubSeq(s, 1, Len(OBJECT_HEAD)) = OBJECT_HEAD
       /\ \E A \in KnownAnalyses : ToString(A) = s[Len(s)]
    THEN Dict(CHOOSE A \in KnownAnalyses : ToString(A) = s[Len(s)])
    ELSE IF s = <<"{","}">> THEN Dict(EmptyObject)
    ELSE IF s = <<"[","]">> THEN [t |-> "list"]
    ELSE [t |-> "error"]

----------------------------------------------------------------------------
(* Advancement evaluator: SalesAgent.advance_logic and _advance_stage.     *)
(* A store value st is [md |-> metadata, turns |-> turns in stage,          *)
(* moved |-> the stages advance_stage was called with].                     *)

\* _advance_stage taking the default successor first and the target only
\* when the stage has no successor
AdvanceStage_DefaultFirst(st, current_stage, target_stage) ==
    LET allowed == ALLOWED_TRANSITIONS(current_stage)
        next_stage == IF allowed # <<>> THEN allowed[1] ELSE target_stage
    IN  IF next_stage # "None" THEN advance_stage(st, next_stage) ELSE st

\* _advance_stage without the default successor: only a target moves the stage
AdvanceStage_TargetOnly(st, current_stage, target_stage) ==
    IF target_stage # "None" THEN advance_stage(st, target_stage) ELSE st

\* _advance_stage(session_id, current_stage, target_stage)
AdvanceStage(st, current_stage, target_stage) ==
    LET allowed == ALLOWED_TRANSITIONS(current_stage)
        next_stage == IF target_stage # "None" THEN target_stage
                      ELSE IF allowed # <<>> THEN allowed[1] ELSE "None"
    IN  IF next_stage # "None" THEN advance_stage(st, next_stage) ELSE st

\* step 2 without the soft advance: any missing required field blocks
MissingCritical_Strict(md, current_stage, intent) ==
    LET required_info == EXIT_CONDITIONS(current_stage)
    IN  \E i \in 1..Len(required_info) : ~ Truthy(get_metadata(md, required_info[i]))

\* step 2 of advance_logic: a required field is missing and not excused
MissingCritical(md, current_stage, intent) ==
    LET required_info == EXIT_CONDITIONS(current_stage)
    IN  \E i \in 1..Len(required_info) :
            /\ ~ Truthy(get_metadata(md, required_info[i]))
            /\ ~ (intent \in {"sharing_pain", "interest"}
                  /\ required_info[i] \in {"role", "company"})

\* step 3 with the sharing_pain jump alone
TargetStage_PainOnly(current_stage, intent) ==
    IF current_stage = GREETING /\ intent = "sharing_pain" THEN PROBLEM ELSE "None"

\* step 3 of advance_logic: the smart-jump target, "None" when there is none
TargetStage(current_stage, intent) ==
    IF current_stage = GREETING
    THEN CASE intent = "pricing_query" -> QUALIFICATION
           [] intent = "sharing_pain" -> PROBLEM
           [] intent = "affirmation" -> QUALIFICATION
           [] OTHER -> "None"
    ELSE "None"

\* should_advance after the intent check and the exit-condition check
ShouldAdvance(md, current_stage, analysis) ==
    /\ analysis.recommended_action = "advance"
    /\ analysis.intent \in ALLOWED_ADVANCE_INTENTS(current_stage)
    /\ ~ MissingCritical(md, current_stage, analysis.intent)

advance_logic(st, current_stage, analysis) ==
    IF current_stage = CLOSING
    THEN IF Truthy(get_metadata(st.md, "meeting_locked"))
         THEN [st EXCEPT !.md = set_metadata(st.md, SESSION_END_KEY, BoolV(TRUE))]
         ELSE st
    ELSE LET target_stage == TargetStage(current_stage, analysis.intent)
         IN  IF ShouldAdvance(st.md, current_stage, analysis) \/ target_stage # "None"
             THEN AdvanceStage(st, current_stage, target_stage)
             ELSE st

----------------------------------------------------------------------------
(* Prompt composer and guardrails: prepare_payload and the head of          *)
(* generate_stream.  A prompt is the sequence of the layers it is made of.  *)

\* the greeting list without its two longer entries
GenericGreetings_Three ==
    { <<"h","e","l","l","o">>, <<"h","i">>, <<"h","e","y">> }

GenericGreetings ==
    { <<"h","e","l","l","o">>, <<"h","i">>, <<"h","e","y">>,
      <<"h","e","l","l","o","?">>, <<"h","i"," ","t","h","e","r","e">> }

NotSubstantive ==
    GenericGreetings \cup
    { <<"i","n","q","u","i","r","y">>, <<"i","n","q","u","i","r","y",".">> }

\* the assistant replies that perceptual recovery takes for a ghost greeting
GhostGreetings == { <<"h","e","l","l","o">>, <<"h","i">>, <<"h","e","y">> }

SUBSTANTIVE_LEN == 15

is_substantive(txt) ==
    LET clean_text == Lower(Strip(txt))
    IN  Len(clean_text) > SUBSTANTIVE_LEN \/ clean_text \notin NotSubstantive

is_generic_greeting(txt) == Lower(Strip(txt)) \in GenericGreetings

\* the stalling guardrail with no upper limit on the turns
NudgeText_NoLimit(turns, current_stage) ==
    2 < turns /\ current_stage # CLOSING

\* the stalling guardrail with a window one turn wider
NudgeText_Wide(turns, current_stage) ==
    2 < turns /\ turns <= 5 /\ current_stage # CLOSING

\* the stalling guardrail of prepare_payload: nudge_text is not empty
NudgeText(turns, current_stage) ==
    2 < turns /\ turns <= 4 /\ current_stage # CLOSING

Layer(present, name) == IF present THEN <<name>> ELSE <<>>

\* STAGE_PROMPTS.get(current_stage, ""): the goal instruction of a stage
STAGE_PROMPTS(stage) ==
    CASE stage = GREETING -> "STAGE_PROMPTS.greeting"
      [] stage = QUALIFICATION -> "STAGE_PROMPTS.qualification"
      [] stage = PROBLEM -> "STAGE_PROMPTS.problem"
      [] stage = SOLUTION -> "STAGE_PROMPTS.solution"
      [] stage = OBJECTION -> "STAGE_PROMPTS.objection"
      [] stage = CLOSING -> "STAGE_PROMPTS.closing"
      [] OTHER -> ""

\* the replacement fields in the texts of SEMANTIC_LOCK_MODIFIER and of
\* NUDGE_MODIFIER: neither text holds one
SEMANTIC_LOCK_FIELDS == {}
NUDGE_FIELDS == {}

\* template.format(stage=..., goal=goal): the template, with the goal taken
\* in where the template has the field for it
Format(template, fields, goal) == <<template>> \o Layer("goal" \in fields, goal)

\* prepare_payload adding the nudge whatever skip_nudge is
prepare_payload_NoSkip(md, turns, skip_nudge) ==
    LET mode_type == get_metadata(md, "mode_type")
        custom_prompt == get_metadata(md, "custom_prompt")
        current_stage == ToStage(get_metadata(md, "stage"))
        value_presented == Truthy(get_metadata(md, PRICING_GATE_METADATA_KEY))
        is_locked == Truthy(get_metadata(md, SESSION_END_KEY))
    IN  <<"DETERMINISTIC_SYSTEM_PROMPT", "BASE_AGENT_PROMPT", "USER_CONTEXT">>
        \o Layer(mode_type.t = "str" /\ mode_type.s = "support", "SUPPORT_MODE_MODIFIER")
        \o Layer(Truthy(custom_prompt), "PERSONA_INSTRUCTIONS")
        \o Format("SEMANTIC_LOCK_MODIFIER", SEMANTIC_LOCK_FIELDS, STAGE_PROMPTS(current_stage))
        \o <<IF value_presented THEN "Value Presented: True" ELSE "Value Presented: False">>
        \o <<"PRICING_GATE_MODIFIER">>
        \o (IF NudgeText(turns, current_stage)
            THEN Format("NUDGE_MODIFIER", NUDGE_FIELDS, STAGE_PROMPTS(current_stage))
            ELSE <<>>)
        \o Layer(is_locked, "CLOSING_STEP_MODIFIER")
        \o <<"BEHAVIORAL_REFINEMENT_PROMPT", "VOICE_CONVERSATION_WRAPPER">>

prepare_payload(md, turns, skip_nudge) ==
    LET mode_type == get_metadata(md, "mode_type")
        custom_prompt == get_metadata(md, "custom_prompt")
        current_stage == ToStage(get_metadata(md, "stage"))
        value_presented == Truthy(get_metadata(md, PRICING_GATE_METADATA_KEY))
        is_locked == Truthy(get_metadata(md, SESSION_END_KEY))
    IN  <<"DETERMINISTIC_SYSTEM_PROMPT", "BASE_AGENT_PROMPT", "USER_CONTEXT">>
        \o Layer(mode_type.t = "str" /\ mode_type.s = "support", "SUPPORT_MODE_MODIFIER")
        \o Layer(Truthy(custom_prompt), "PERSONA_INSTRUCTIONS")
        \o Format("SEMANTIC_LOCK_MODIFIER", SEMANTIC_LOCK_FIELDS, STAGE_PROMPTS(current_stage))
        \o <<IF value_presented THEN "Value Presented: True" ELSE "Value Presented: False">>
        \o <<"PRICING_GATE_MODIFIER">>
        \o (IF NudgeText(turns, current_stage) /\ ~ skip_nudge
            THEN Format("NUDGE_MODIFIER", NUDGE_FIELDS, STAGE_PROMPTS(current_stage))
            ELSE <<>>)
        \o Layer(is_locked, "CLOSING_STEP_MODIFIER")
        \o <<"BEHAVIORAL_REFINEMENT_PROMPT", "VOICE_CONVERSATION_WRAPPER">>

\* greeting_loop_count after the loop-breaker bookkeeping
GreetingCount(md, txt) ==
    LET stored == get_metadata(md, "greeting_loop_count")
        greeting_count == IF Truthy(stored) THEN stored.n ELSE 0
    IN  IF is_generic_greeting(txt) THEN greeting_count + 1 ELSE greeting_count

LoopBookkeeping(md, txt) ==
    IF is_generic_greeting(txt)
    THEN set_metadata(md, "greeting_loop_count", IntV(GreetingCount(md, txt)))
    ELSE IF is_substantive(txt)
    THEN set_metadata(md, "greeting_loop_count", IntV(0))
    ELSE md

\* history[-2] is an assistant message that is a bare greeting
GhostReply(h) ==
    /\ Len(h) >= 2
    /\ h[Len(h) - 1].role = "assistant"
    /\ Lower(Strip(h[Len(h) - 1].content)) \in GhostGreetings

\* the system prompt of generate_stream; h and md are the history and the
\* metadata after the user message and the loop bookkeeping, greeting_count
\* the local counter
ComposePrompt(h, md, turns, txt, greeting_count) ==
    LET final == ToStage(get_metadata(md, "stage"))
    IN  prepare_payload(md, turns, is_substantive(txt))
        \o Layer(is_substantive(txt), "USER_IS_MAKING_PROGRESS")
        \o Layer(is_substantive(txt) /\ final = GREETING, "ACT_AS_IF_QUALIFICATION")
        \o Layer(greeting_count > 2 /\ is_generic_greeting(txt),
                 "PATTERN_INTERRUPT_MODIFIER")
        \o Layer(is_substantive(txt) /\ GhostReply(h), "PERCEPTUAL_RECOVERY_MODIFIER")
        \o <<"COMBINED_ANALYSIS_INSTRUCTION">>

----------------------------------------------------------------------------
(* After the stream: steps 5 to 9 of generate_stream *)

\* step 5: the analysis taken from the full content; a JSONDecodeError is
\* caught and gives the fallback
ExtractAnalysis(full_content) ==
    IF Contains(full_content, OPEN_TAG) /\ Contains(full_content, CLOSE_TAG)
    THEN LET start == Find(full_content, OPEN_TAG) + Len(OPEN_TAG)
             end == Find(full_content, CLOSE_TAG)
             parsed == JsonLoads(Strip(Slice(full_content, start, end)))
         IN  IF parsed.t = "error"
             THEN [human_response |-> full_content, analysis |-> Dict(FallbackAnalysis)]
             ELSE [human_response |->
                       Strip(Slice(full_content, 0, Find(full_content, OPEN_TAG))),
                   analysis |-> parsed]
    ELSE [human_response |-> full_content, analysis |-> Dict(DefaultAnalysis)]

\* analysis.get("extracted_info", {}).items() raises AttributeError
ItemsRaises(analysis) ==
    \/ analysis.t # "dict"
    \/ analysis.d.extracted_info.t \notin {"absent", "dict"}

\* analysis.get("extracted_info", {})
ExtractedInfo(A) ==
    IF A.extracted_info.t = "absent" THEN [k \in {} |-> NoneV] ELSE A.extracted_info.d

\* step 7: every non-null extracted value is written under its key
ApplyExtracted(md, info) ==
    [k \in DOMAIN md |->
        IF k \in DOMAIN info /\ info[k].t # "none" THEN info[k]
        ELSE IF /\ k = PRICING_GATE_METADATA_KEY
                /\ "value_accepted" \in DOMAIN info
                /\ info["value_accepted"].t = "bool"
                /\ info["value_accepted"].b
        THEN BoolV(TRUE)
        ELSE md[k]]

\* steps 7 to 9 with the advancement run before the facts are written
ApplyAnalysis_AdvanceFirst(st, stage, A) ==
    LET advanced == advance_logic(st, stage, A)
        written == [advanced EXCEPT !.md = ApplyExtracted(advanced.md, ExtractedInfo(A))]
    IN  [written EXCEPT !.md = set_metadata(written.md, "last_analysis", Dict(A))]

\* steps 7 to 9 on a dict analysis A
ApplyAnalysis(st, stage, A) ==
    LET written == [st EXCEPT !.md = ApplyExtracted(st.md, ExtractedInfo(A))]
        advanced == advance_logic(written, stage, A)
    IN  [advanced EXCEPT !.md = set_metadata(advanced.md, "last_analysis", Dict(A))]

----------------------------------------------------------------------------
(* The inputs of the model: what the user says, what the generator sends *)

U_hi == <<"h","i">>
U_inquiry == <<"i","n","q","u","i","r","y">>
U_long == <<"w","e"," ","l","o","s","e"," ","l","e","a","d","s"," ","a","f","t","e","r"," ","h","o","u","r","s">>

H_ok == <<"O","k","."," ">>
H_short == <<"H","i"," ","t","h","e","r","e","."," ">>
H_long == <<"S","u","r","e",","," ","w","e"," ","c","a","n"," ","h","e","l","p"," ","y","o","u","r"," ","t","e","a","m","."," ">>
H_a == <<"a"," ">>
H_plain == <<"H","a","p","p","y"," ","t","o"," ","h","e","l","p"," ","w","i","t","h"," ","y","o","u","r"," ","c","a","l","l","s",".">>

\* H, then the analysis block of A between its tags
Reply(H, A) == H \o OPEN_TAG \o Json(A) \o CLOSE_TAG

\* the replies whose round trip is followed: the human text and the analysis
RoundTripCases ==
    { [human |-> H_short, analysis |-> A_advance],
      [human |-> H_long, analysis |-> A_jump],
      [human |-> H_a, analysis |-> A_advance] }

\* replies that break the output contract
R_plain == H_plain
R_word == <<"s","u","p","e","r","c","a","l","i","f","r","a","g","i","l","i","s","t","i","c","e","x","p","i","a","l","i","d">>
R_colon == H_ok \o <<"a","n","a","l","y","s","i","s",":"," ">> \o Json(A_advance)
R_raw == H_ok \o Json(A_advance)
R_upper == H_ok \o <<"<","A","N","A","L","Y","S","I","S",">">> \o Json(A_advance) \o <<"<","/","A","N","A","L","Y","S","I","S",">">>
R_cut == H_ok \o OPEN_TAG \o Json(A_advance)
R_twice == H_ok \o Json(A_jump) \o <<" ">> \o OPEN_TAG \o Json(A_advance) \o CLOSE_TAG
R_bad == H_ok \o OPEN_TAG \o <<"{","o","o","p","s">> \o CLOSE_TAG
R_list == H_ok \o OPEN_TAG \o <<"[","]">> \o CLOSE_TAG
R_null == Reply(H_ok, A_null_info)
R_text == Reply(H_ok, A_text_info)

StreamTexts == {U_long}

StreamContents ==
    {Reply(c.human, c.analysis) : c \in RoundTripCases} \cup
    {R_plain, R_word, R_colon, R_raw, R_upper, R_cut, R_twice, R_bad, R_list,
     R_null, R_text}

TurnTexts == {U_hi, U_long}

TurnContents == {Reply(H_ok, A) : A \in TurnAnalyses} \cup {R_plain}

\* the turns of a session in Spec
MaxTurns == 3

----------------------------------------------------------------------------
(* The turn: SalesAgent.generate_stream *)

\* the conversations served by one process, and the ids their state is
\* kept under: CerebrasLLMStream._run uses one literal id for every call
Conversations == {"conversation_1", "conversation_2"}
LIVEKIT_VOICE == "livekit_voice"
SessionIds == Conversations \cup {LIVEKIT_VOICE}

\* no request has been answered yet
NoResponse == [op |-> "none", id |-> "", status |-> 0, stage |-> ""]

\* the locals of a generate_stream call that has not begun
NoCall == [pc |-> "idle", text |-> <<>>, stream |-> <<>>, final_stage |-> GREETING]

\* a SalesLLM that has run no stream: no transcript is tracked, the chat
\* context holds no user message, the event channel is open and empty
NoVoice ==
    [pc |-> "idle", room |-> TRUE, ctx |-> NoneV, last_transcript |-> NoneV,
     user_msg |-> NoneV, polls |-> 0, all_stale |-> TRUE, initial_msg |-> <<>>,
     gen |-> [tokens |-> <<>>, fails |-> FALSE], yields |-> <<>>,
     tokens_yielded |-> 0, chunk_buffer |-> <<>>, sent |-> <<>>,
     received |-> <<>>, closed |-> 0, sent_closed |-> FALSE, notice_at |-> 0,
     packet |-> 0, publish_failed |-> FALSE, path |-> "none",
     invoked |-> FALSE, run_no |-> 0,
     analysis_run |-> 0, heard |-> 0, hist_len |-> 0]

Init ==
    /\ history = <<>>
    /\ metadata = DefaultMetadata
    /\ stage_turns = 0
    /\ pc = "idle"
    /\ text = <<>>
    /\ stream = <<>>
    /\ pos = 0
    /\ full_response_buffer = <<>>
    /\ safeguard_buffer = <<>>
    /\ is_parsing_analysis = FALSE
    /\ tokens_yielded = 0
    /\ yielded = <<>>
    /\ last_chunk = <<>>
    /\ final_stage = GREETING
    /\ system_prompt = <<>>
    /\ turn_no = 0
    /\ advanced_to = <<>>
    /\ rival = NoCall
    /\ before = DefaultMetadata
    /\ session_store = [id \in SessionIds |-> <<>>]
    /\ sessions = [id \in SessionIds |-> <<>>]
    /\ response = NoResponse
    /\ nudged = 0
    /\ voice = NoVoice
    /\ legacy = <<>>

\* generate_stream up to the request to the generation service: the user
\* message, the stage, the loop bookkeeping and the prompt.  A stored stage
\* that names no SalesStage raises ValueError after the user message.
BeginTurn(t, c) ==
    /\ pc \in {"idle", "done", "raised", "failed", "abandoned"}
    /\ turn_no' = turn_no + 1
    /\ advanced_to' = <<>>
    /\ before' = metadata
    /\ UNCHANGED <<rival, session_store, sessions, response,
                   voice, legacy>>
    /\ text' = t
    /\ history' = add_message(history, "user", t)
    /\ stage_turns' = stage_turns + 1
    /\ IF ToStage(get_metadata(metadata, "stage")) = "ValueError"
       THEN /\ pc' = "raised"
            /\ UNCHANGED <<metadata, stream, pos, full_response_buffer,
                           safeguard_buffer, is_parsing_analysis, tokens_yielded,
                           yielded, last_chunk, final_stage, system_prompt, nudged>>
       ELSE /\ pc' = "streaming"
            /\ metadata' = LoopBookkeeping(metadata, t)
            /\ final_stage' = ToStage(get_metadata(metadata, "stage"))
            /\ system_prompt' = ComposePrompt(history', metadata', stage_turns', t,
                                              GreetingCount(metadata, t))
            /\ nudged' = IF \E i \in 1..Len(system_prompt') :
                                system_prompt'[i] = "NUDGE_MODIFIER"
                         THEN nudged + 1 ELSE nudged
            /\ stream' = c
            /\ pos' = 0
            /\ full_response_buffer' = <<>>
            /\ safeguard_buffer' = <<>>
            /\ is_parsing_analysis' = FALSE
            /\ tokens_yielded' = 0
            /\ yielded' = <<>>
            /\ last_chunk' = <<>>

\* one iteration of `async for token in ...stream_completion(...)`; the token
\* is the next k characters of the stream
Token(k) ==
    /\ pc = "streaming"
    /\ k >= 1
    /\ pos + k <= Len(stream)
    /\ pos' = pos + k
    /\ tokens_yielded' = tokens_yielded + 1
    /\ full_response_buffer' = full_response_buffer \o SubSeq(stream, pos + 1, pos + k)
    /\ IF is_parsing_analysis
       THEN /\ last_chunk' = <<>>
            /\ UNCHANGED <<safeguard_buffer, is_parsing_analysis, yielded>>
       ELSE LET r == DemuxStep(safeguard_buffer \o SubSeq(stream, pos + 1, pos + k),
                               tokens_yielded')
            IN  /\ safeguard_buffer' = r.buf
                /\ is_parsing_analysis' = r.parsing
                /\ yielded' = yielded \o r.chunk
                /\ last_chunk' = r.chunk
    /\ UNCHANGED <<history, metadata, stage_turns, pc, text, stream, final_stage,
                   system_prompt, turn_no, advanced_to, rival, before, session_store, sessions, response, nudged,
                   voice, legacy>>

\* the flush at the end of the stream
Flush == IF safeguard_buffer # <<>> /\ ~ is_parsing_analysis THEN safeguard_buffer ELSE <<>>

\* the stream ends: the flush, then steps 5 to 9.  An analysis that is no dict,
\* or whose extracted_info is no dict, raises AttributeError after the
\* assistant message was stored.
EndStream ==
    /\ pc = "streaming"
    /\ pos = Len(stream)
    /\ yielded' = yielded \o Flush
    /\ last_chunk' = Flush
    /\ LET r == ExtractAnalysis(full_response_buffer)
           st == [md |-> metadata, turns |-> stage_turns + 1, moved |-> <<>>]
       IN  /\ history' = add_message(history, "assistant", r.human_response)
           /\ IF ItemsRaises(r.analysis)
              THEN /\ pc' = "raised"
                   /\ metadata' = metadata
                   /\ stage_turns' = stage_turns + 1
                   /\ advanced_to' = <<>>
              ELSE /\ pc' = "done"
                   /\ metadata' = ApplyAnalysis(st, final_stage, r.analysis.d).md
                   /\ stage_turns' = ApplyAnalysis(st, final_stage, r.analysis.d).turns
                   /\ advanced_to' = ApplyAnalysis(st, final_stage, r.analysis.d).moved
    /\ nudged' = IF ToStage(get_metadata(metadata', "stage")) =
                       ToStage(get_metadata(metadata, "stage"))
                 THEN nudged ELSE 0
    /\ UNCHANGED <<text, stream, pos, full_response_buffer, safeguard_buffer,
                   is_parsing_analysis, tokens_yielded, final_stage, system_prompt,
                   turn_no, rival, before, session_store, sessions, response,
                   voice, legacy>>

\* a turn of the session: any of the model's texts and replies
NextTurn ==
    \E t \in TurnTexts, c \in TurnContents : turn_no < MaxTurns /\ BeginTurn(t, c)

\* the reply arrives as one token
WholeToken == pos = 0 /\ Token(Len(stream))

Next == NextTurn \/ WholeToken \/ EndStream

Spec == Init /\ [][Next]_vars

\* the first turn of a session, its reply cut into tokens in every way
StreamTurn ==
    \E t \in StreamTexts, c \in StreamContents : turn_no = 0 /\ BeginTurn(t, c)

AnyToken == \E k \in 1..(Len(stream) - pos) : Token(k)

NextStream == StreamTurn \/ AnyToken \/ EndStream

SpecStream == Init /\ [][NextStream]_vars

----------------------------------------------------------------------------
(* Properties of the stream demultiplexer, checked under SpecStream *)

\* where the first analysis-opening marker starts in s (from 0), compared
\* case-insensitively; Len(s) when s holds none
MarkerStart(s) ==
    LET starts == {Find(Lower(s), analysis_patterns[k]) :
                      k \in 1..Len(analysis_patterns)} \ {-1}
    IN  IF starts = {} THEN Len(s) ELSE CHOOSE i \in starts : \A j \in starts : i <= j

\* C1: whatever the tokenisation, all that generate_stream has yielded lies
\* strictly before the first analysis-opening marker of the raw stream: no
\* character of the marker or of the payload reaches the human channel.
C1_NoAnalysisCharYielded == Len(yielded) <= MarkerStart(stream)

\* C2: round trip.  For the replies H + <analysis> + json(A) + </analysis>,
\* however they are cut into tokens, the turn yields exactly H and the
\* analysis recorded for the session is A.
C2_RoundTrip ==
    \A c \in RoundTripCases :
        (pc = "done" /\ stream = Reply(c.human, c.analysis)) =>
            /\ yielded = c.human
            /\ metadata["last_analysis"] = Dict(c.analysis)

\* C3: at every point the chunks yielded so far are a prefix of the tokens
\* received so far, and a stream that ends with no marker detected has been
\* yielded whole.
C3_YieldedIsPrefix ==
    /\ Len(yielded) <= Len(full_response_buffer)
    /\ yielded = SubSeq(full_response_buffer, 1, Len(yielded))
    /\ (pc \in {"done", "raised"} /\ ~ is_parsing_analysis) =>
           yielded = full_response_buffer

\* a reply with no marker, longer than the safeguard window, received in more
\* tokens than the latency rule covers and yielded in several chunks
C3_Witness ==
    /\ pc = "done"
    /\ ~ is_parsing_analysis
    /\ Len(stream) > SAFEGUARD_SIZE
    /\ tokens_yielded > LATENCY_TOKENS
    /\ yielded = stream
    /\ last_chunk # stream

\* C4: after a completed turn the assistant message stored in the history is
\* the human text the turn yielded, up to surrounding whitespace, and holds no
\* analysis marker.
C4_HistoryIsYieldedText ==
    pc = "done" =>
        LET m == history[Len(history)]
        IN  /\ m.role = "assistant"
            /\ Strip(m.content) = Strip(yielded)
            /\ FoundTag(Lower(m.content)) = 0

\* the completed stream has no <analysis>...</analysis> pair, or what the pair
\* encloses is not an analysis: invalid JSON, JSON that is no object, or an
\* extracted_info that is no object
MalformedReply(full_content) ==
    \/ ~ (Contains(full_content, OPEN_TAG) /\ Contains(full_content, CLOSE_TAG))
    \/ LET start == Find(full_content, OPEN_TAG) + Len(OPEN_TAG)
           end == Find(full_content, CLOSE_TAG)
           parsed == JsonLoads(Strip(Slice(full_content, start, end)))
       IN  \/ parsed.t # "dict"
           \/ parsed.d.extracted_info.t \notin {"absent", "dict"}

\* C5: a malformed reply ends the turn with the safe default analysis: the
\* turn completes without raising, the assistant message and last_analysis
\* (intent other, no facts, stay) are recorded, no fact is written and the
\* stage is unchanged.
C5_MalformedEndsSafely ==
    [][(pc = "streaming" /\ pc' # "streaming" /\ MalformedReply(full_response_buffer)) =>
          /\ pc' = "done"
          /\ Len(history') = Len(history) + 1
          /\ history'[Len(history')].role = "assistant"
          /\ \A k \in FactKeys \cup {"stage"} : metadata'[k] = metadata[k]
          /\ metadata'["last_analysis"].t = "dict"
          /\ metadata'["last_analysis"].d.intent = "other"
          /\ metadata'["last_analysis"].d.recommended_action = "stay"
          /\ ExtractedInfo(metadata'["last_analysis"].d) = [k \in {} |-> NoneV]]_vars

----------------------------------------------------------------------------
(* Properties of the session's stage, checked under Spec *)

\* the session is in Closing with the session-locked flag set
SessionLocked ==
    /\ ToStage(get_metadata(metadata, "stage")) = CLOSING
    /\ Truthy(get_metadata(metadata, SESSION_END_KEY))

\* C6: terminal lock.  A turn that completes in Closing with meeting_locked
\* set leaves the session-locked flag set, and once the flag is set in Closing
\* no later turn, whatever its analysis, takes the session out of Closing.
C6_TerminalLock ==
    [][/\ (/\ pc = "streaming" /\ pc' = "done" /\ final_stage = CLOSING
           /\ Truthy(get_metadata(metadata, "meeting_locked")))
          => Truthy(get_metadata(metadata', SESSION_END_KEY))
       /\ SessionLocked => ToStage(get_metadata(metadata', "stage")) = CLOSING]_vars

\* the turn completes in this step without raising
TurnCompletes == pc = "streaming" /\ pc' = "done"

\* C7: smart jump.  advance_logic run in Greeting moves the session to
\* Qualification on pricing_query, to Problem on sharing_pain and to
\* Qualification on affirmation, whatever recommended_action, the allowed
\* intents and the exit conditions are; in any other stage a change of stage
\* is the default successor and needs the recommendation to advance, an
\* allowed intent and no missing critical field.
C7_SmartJump ==
    [][TurnCompletes =>
        LET A == metadata'["last_analysis"].d
            new == ToStage(get_metadata(metadata', "stage"))
        IN  /\ (final_stage = GREETING /\ A.intent \in {"pricing_query", "affirmation"})
                   => new = QUALIFICATION /\ advanced_to' = <<QUALIFICATION>>
            /\ (final_stage = GREETING /\ A.intent = "sharing_pain")
                   => new = PROBLEM /\ advanced_to' = <<PROBLEM>>
            /\ (final_stage # GREETING /\ advanced_to' # <<>>)
                   => /\ advanced_to' = <<ALLOWED_TRANSITIONS(final_stage)[1]>>
                      /\ A.recommended_action = "advance"
                      /\ A.intent \in ALLOWED_ADVANCE_INTENTS(final_stage)
                      /\ \A i \in 1..Len(EXIT_CONDITIONS(final_stage)) :
                            \/ Truthy(metadata'[EXIT_CONDITIONS(final_stage)[i]])
                            \/ /\ A.intent \in {"sharing_pain", "interest"}
                               /\ EXIT_CONDITIONS(final_stage)[i] \in {"role", "company"}]_vars

\* a pricing question in Greeting, recommended to stay, with pricing_query no
\* allowed advance intent of Greeting, has moved the session to Qualification
C7_Witness ==
    /\ pc = "done"
    /\ final_stage = GREETING
    /\ metadata["last_analysis"].d.intent = "pricing_query"
    /\ metadata["last_analysis"].d.recommended_action = "stay"
    /\ "pricing_query" \notin ALLOWED_ADVANCE_INTENTS(GREETING)
    /\ get_metadata(metadata, "stage") = StageV(QUALIFICATION)

\* C8: soft advance.  In a stage after Greeting and before Closing, an
\* analysis that recommends to advance with intent sharing_pain or interest,
\* the intent being allowed and every required field other than role and
\* company being known, moves the session to the stage's default successor
\* although role or company is missing.
C8_SoftAdvance ==
    [][TurnCompletes =>
        LET A == metadata'["last_analysis"].d
            required_info == EXIT_CONDITIONS(final_stage)
        IN  (/\ final_stage \notin {GREETING, CLOSING}
             /\ A.recommended_action = "advance"
             /\ A.intent \in {"sharing_pain", "interest"}
             /\ A.intent \in ALLOWED_ADVANCE_INTENTS(final_stage)
             /\ \A i \in 1..Len(required_info) :
                    required_info[i] \notin {"role", "company"}
                        => Truthy(metadata'[required_info[i]]))
            => /\ advanced_to' = <<ALLOWED_TRANSITIONS(final_stage)[1]>>
               /\ get_metadata(metadata', "stage") =
                      StageV(ALLOWED_TRANSITIONS(final_stage)[1])]_vars

\* the scenario: Problem left for Solution on sharing_pain and advance, with
\* pain_points known and neither role nor company
C8_Witness ==
    /\ pc = "done"
    /\ final_stage = PROBLEM
    /\ metadata["last_analysis"].d.intent = "sharing_pain"
    /\ metadata["last_analysis"].d.recommended_action = "advance"
    /\ Truthy(get_metadata(metadata, "pain_points"))
    /\ ~ Truthy(get_metadata(metadata, "role"))
    /\ ~ Truthy(get_metadata(metadata, "company"))
    /\ get_metadata(metadata, "stage") = StageV(SOLUTION)

\* C9: tie-break.  In Greeting, when the analysis recommends to advance with
\* an allowed intent (Greeting has no exit condition) and the intent also has
\* a smart-jump target, the session moves to the smart-jump target, not to
\* the default successor, and advance_stage is called exactly once.
C9_TieBreak ==
    [][TurnCompletes =>
        LET A == metadata'["last_analysis"].d
            jump == CASE A.intent = "sharing_pain" -> PROBLEM
                      [] A.intent \in {"pricing_query", "affirmation"} -> QUALIFICATION
                      [] OTHER -> "None"
        IN  (/\ final_stage = GREETING
             /\ EXIT_CONDITIONS(GREETING) = <<>>
             /\ A.recommended_action = "advance"
             /\ A.intent \in ALLOWED_ADVANCE_INTENTS(GREETING)
             /\ jump # "None")
            => /\ advanced_to' = <<jump>>
               /\ get_metadata(metadata', "stage") = StageV(jump)
               /\ stage_turns' = 0]_vars

\* sharing_pain with advance in Greeting: both conditions hold, the target
\* (Problem) differs from the default successor (Qualification) and wins
C9_Witness ==
    /\ pc = "done"
    /\ final_stage = GREETING
    /\ metadata["last_analysis"].d.intent = "sharing_pain"
    /\ metadata["last_analysis"].d.recommended_action = "advance"
    /\ "sharing_pain" \in ALLOWED_ADVANCE_INTENTS(GREETING)
    /\ ALLOWED_TRANSITIONS(GREETING)[1] # PROBLEM
    /\ advanced_to = <<PROBLEM>>
    /\ get_metadata(metadata, "stage") = StageV(PROBLEM)

----------------------------------------------------------------------------
(* Properties of the composed prompt, checked under Spec *)

HasLayer(prompt, name) == \E i \in 1..Len(prompt) : prompt[i] = name

\* C10: while the reply of a turn is generated, the prompt composed for the
\* turn holds the stall-nudge layer if and only if the stage is not Closing,
\* the turns in the stage at composition time are more than 2 and at most 4,
\* and the user's text was not judged substantive.
C10_NudgeLayer ==
    pc = "streaming" =>
        (HasLayer(system_prompt, "NUDGE_MODIFIER") <=>
            /\ final_stage # CLOSING
            /\ 2 < stage_turns /\ stage_turns <= 4
            /\ ~ is_substantive(text))

\* a second bare greeting in a stage that is not Closing: the nudge is there
C10_Witness ==
    /\ pc = "streaming"
    /\ final_stage # CLOSING
    /\ stage_turns = 3
    /\ ~ is_substantive(text)
    /\ HasLayer(system_prompt, "NUDGE_MODIFIER")

----------------------------------------------------------------------------
(* The greeting-loop scenario: five greetings in a row from a new session *)

LoopInputs ==
    << <<"h","i">>,
       <<"h","e","l","l","o">>,
       <<"h","e","y">>,
       <<"h","i"," ","t","h","e","r","e">>,
       <<"h","e","l","l","o","?">> >>

\* the next greeting of the scenario, answered by any of the model's replies
LoopTurn ==
    \E c \in TurnContents :
        turn_no < Len(LoopInputs) /\ BeginTurn(LoopInputs[turn_no + 1], c)

NextLoop == LoopTurn \/ WholeToken \/ EndStream

SpecLoop == Init /\ [][NextLoop]_vars

\* C11: in the greeting-loop scenario, when the prompt of the fourth turn is
\* composed the greeting-loop counter reads 4 and the prompt holds the
\* pattern-interrupt instruction, whatever the replies of the turns before.
C11_GreetingLoop ==
    (turn_no = 4 /\ pc = "streaming") =>
        /\ get_metadata(metadata, "greeting_loop_count") = IntV(4)
        /\ HasLayer(system_prompt, "PATTERN_INTERRUPT_MODIFIER")

\* the fourth greeting, "hi there", is being answered with the interrupt in
\* the prompt
C11_Witness ==
    /\ turn_no = 4
    /\ pc = "streaming"
    /\ text = LoopInputs[4]
    /\ get_metadata(metadata, "greeting_loop_count") = IntV(4)
    /\ HasLayer(system_prompt, "PATTERN_INTERRUPT_MODIFIER")

----------------------------------------------------------------------------
(* Properties of the turn counter of the store, checked under Spec *)

\* C12: a step in which the evaluator performs a stage transition leaves the
\* turns in stage at 0, and a step that leaves the stage unchanged raises
\* them by exactly the number of messages it appends to the history.
C12_TurnsInStage ==
    [][/\ (TurnCompletes /\ advanced_to' # <<>>) => stage_turns' = 0
       /\ (get_metadata(metadata', "stage") = get_metadata(metadata, "stage"))
              => stage_turns' = stage_turns + (Len(history') - Len(history))]_vars

\* a later turn of a session, after messages were counted, ends with a
\* transition and the counter at 0
C12_Witness ==
    /\ pc = "done"
    /\ turn_no >= 2
    /\ Len(history) >= 4
    /\ advanced_to # <<>>
    /\ stage_turns = 0

----------------------------------------------------------------------------
(* Two generate_stream calls on one session.  Nothing in generate_stream or *)
(* in its callers holds a lock: a call suspended at `async for token` lets  *)
(* the event loop run another call on the same session id.                  *)

\* the state the turn's own locals keep while the rival call takes a step
TurnLocals ==
    <<pc, text, stream, pos, full_response_buffer, safeguard_buffer,
      is_parsing_analysis, tokens_yielded, yielded, last_chunk, final_stage,
      system_prompt, turn_no, advanced_to, before, session_store, sessions, response, nudged,
                   voice, legacy>>

\* the rival call runs generate_stream up to its request for tokens
RivalBegin(t, c) ==
    /\ rival.pc = "idle"
    /\ history' = add_message(history, "user", t)
    /\ stage_turns' = stage_turns + 1
    /\ IF ToStage(get_metadata(metadata, "stage")) = "ValueError"
       THEN /\ rival' = [rival EXCEPT !.pc = "raised", !.text = t]
            /\ UNCHANGED metadata
       ELSE /\ metadata' = LoopBookkeeping(metadata, t)
            /\ rival' = [pc |-> "streaming", text |-> t, stream |-> c,
                         final_stage |-> ToStage(get_metadata(metadata, "stage"))]
    /\ UNCHANGED TurnLocals

\* the rival call receives its reply and runs steps 5 to 9
RivalEnd ==
    /\ rival.pc = "streaming"
    /\ LET r == ExtractAnalysis(rival.stream)
           st == [md |-> metadata, turns |-> stage_turns + 1, moved |-> <<>>]
       IN  /\ history' = add_message(history, "assistant", r.human_response)
           /\ IF ItemsRaises(r.analysis)
              THEN /\ rival' = [rival EXCEPT !.pc = "raised"]
                   /\ metadata' = metadata
                   /\ stage_turns' = stage_turns + 1
              ELSE /\ rival' = [rival EXCEPT !.pc = "done"]
                   /\ metadata' = ApplyAnalysis(st, rival.final_stage, r.analysis.d).md
                   /\ stage_turns' = ApplyAnalysis(st, rival.final_stage, r.analysis.d).turns
    /\ UNCHANGED TurnLocals

\* one turn of the session
FirstTurn ==
    \E t \in TurnTexts, c \in TurnContents : turn_no = 0 /\ BeginTurn(t, c)

RivalTurn == \E t \in TurnTexts, c \in TurnContents : RivalBegin(t, c)

NextConc == FirstTurn \/ WholeToken \/ EndStream \/ RivalTurn \/ RivalEnd

SpecConc == Init /\ [][NextConc]_vars

\* C13: two turns of one session never interleave: no call is between its
\* user message and its final writes while another call on the same session
\* is between its own.
C13_TurnsDoNotInterleave == ~ (pc = "streaming" /\ rival.pc = "streaming")

----------------------------------------------------------------------------
(* Turns that do not reach the end of the stream *)

\* stream_completion raises while generate_stream awaits a token: nothing
\* in generate_stream catches it, the exception leaves the generator
GenerationFails ==
    /\ pc = "streaming"
    /\ pc' = "failed"
    /\ UNCHANGED <<history, metadata, stage_turns, text, stream, pos,
                   full_response_buffer, safeguard_buffer, is_parsing_analysis,
                   tokens_yielded, yielded, last_chunk, final_stage, system_prompt,
                   turn_no, advanced_to, rival, before, session_store, sessions, response, nudged,
                   voice, legacy>>

\* the consumer leaves its `async for` after a chunk of the token loop: the
\* generator stays suspended at that yield and is closed there
ConsumerStops ==
    /\ pc = "streaming"
    /\ last_chunk # <<>>
    /\ pc' = "abandoned"
    /\ UNCHANGED <<history, metadata, stage_turns, text, stream, pos,
                   full_response_buffer, safeguard_buffer, is_parsing_analysis,
                   tokens_yielded, yielded, last_chunk, final_stage, system_prompt,
                   turn_no, advanced_to, rival, before, session_store, sessions, response, nudged,
                   voice, legacy>>

\* the consumer leaves after the chunk of the final flush: the whole stream
\* was received, steps 5 to 9 never run
ConsumerStopsAtFlush ==
    /\ pc = "streaming"
    /\ pos = Len(stream)
    /\ Flush # <<>>
    /\ yielded' = yielded \o Flush
    /\ last_chunk' = Flush
    /\ pc' = "abandoned"
    /\ UNCHANGED <<history, metadata, stage_turns, text, stream, pos,
                   full_response_buffer, safeguard_buffer, is_parsing_analysis,
                   tokens_yielded, final_stage, system_prompt, turn_no,
                   advanced_to, rival, before, session_store, sessions, response, nudged,
                   voice, legacy>>

\* the turns of a session in SpecFail
MaxFailTurns == 2

\* R_word is a reply whose end is still in the window when the stream ends;
\* the analysis of R_bad_stage stores a stage that names no SalesStage
R_bad_stage == Reply(H_ok, A_bad_stage)

FailContents == TurnContents \cup {R_word, R_bad_stage}

FailTurn ==
    \E t \in TurnTexts, c \in FailContents : turn_no < MaxFailTurns /\ BeginTurn(t, c)

NextFail ==
    \/ FailTurn \/ WholeToken \/ EndStream
    \/ GenerationFails \/ ConsumerStops \/ ConsumerStopsAtFlush

SpecFail == Init /\ [][NextFail]_vars

\* what the caller of the turn is handed: handle_message returns the text of
\* a completed turn and turns any exception into an HTTP 500 error
CallerReceives(p) ==
    CASE p = "done" -> "response"
      [] p \in {"raised", "failed"} -> "error"
      [] OTHER -> "nothing"

\* C14: when the generation call of a turn has raised, the caller is handed
\* a fallback response and no error, and the session differs from what it was
\* before the turn by the user message alone: stage, facts, greeting-loop
\* counter and last_analysis are unchanged.
C14_GenerationFailure ==
    pc = "failed" =>
        /\ CallerReceives(pc) = "fallback"
        /\ metadata = before
        /\ history[Len(history)] = [role |-> "user", content |-> text]

\* C15: when the consumer has stopped iterating before the end of the turn,
\* the analysis was applied whole or the session's metadata and stage are
\* exactly what they were before the turn.
C15_AbandonedTurn ==
    pc = "abandoned" =>
        \/ metadata = before
        \/ /\ ~ ItemsRaises(ExtractAnalysis(stream).analysis)
           /\ metadata =
                  ApplyAnalysis([md |-> LoopBookkeeping(before, text),
                                 turns |-> stage_turns, moved |-> <<>>],
                                final_stage,
                                ExtractAnalysis(stream).analysis.d).md

\* the stored stage is a string that names no member of SalesStage
StoredStageInvalid ==
    /\ get_metadata(metadata, "stage").t = "str"
    /\ get_metadata(metadata, "stage").s \notin SalesStage

\* C16: a turn called while the stored stage is a string that names no stage
\* fails at the conversion: generate_stream raises, no prompt is composed, no
\* reply is requested, and metadata and stage are left as they were.
C16_InvalidStageRejected ==
    [][(StoredStageInvalid /\ turn_no' = turn_no + 1)
          => /\ pc' = "raised"
             /\ metadata' = metadata
             /\ system_prompt' = system_prompt
             /\ stream' = stream
             /\ pos' = pos
             /\ advanced_to' = <<>>]_vars

\* the second turn of a session whose first reply stored the stage
\* "negotiation" has raised after recording the user's message
C16_Witness ==
    /\ pc = "raised"
    /\ turn_no = 2
    /\ StoredStageInvalid
    /\ metadata = before
    /\ history[Len(history)] = [role |-> "user", content |-> text]

----------------------------------------------------------------------------
(* Conversations and the session ids their turns run under *)

\* the messages a session may hold in SpecSessions
MaxMessages == 3

\* all that the turn of the one-session model holds
OneSession ==
    <<history, metadata, stage_turns, pc, text, stream, pos,
      full_response_buffer, safeguard_buffer, is_parsing_analysis,
      tokens_yielded, yielded, last_chunk, final_stage, system_prompt,
      turn_no, advanced_to, rival, before, nudged, voice, legacy>>

\* SessionMemory._ensure_defaults / SalesAgent._get_or_create_session: a
\* session that is absent is created with the first stage and no facts
ensure_defaults(s, session_id) ==
    IF s[session_id] = <<>> THEN [s EXCEPT ![session_id] = <<DefaultMetadata>>]
    ELSE s

\* a read that answers for every id with the defaults of a new session
get_session_info_Defaults(s, store, session_id) ==
    ensure_defaults(s, session_id)[session_id][1]["stage"].e

\* SalesAgent.get_session_info and the test of get_session: a read
\* creates nothing, and a session is known once created or written
get_session_info(s, store, session_id) ==
    IF s[session_id] = <<>> /\ store[session_id] = <<>> THEN "None"
    ELSE ensure_defaults(s, session_id)[session_id][1]["stage"].e

\* update_memory(session_id, "user", text) on the process-wide store; the
\* write creates the session when it is absent
RecordUser(session_id, conv, t, op) ==
    /\ Len(session_store[session_id]) < MaxMessages
    /\ session_store' =
           [session_store EXCEPT
               ![session_id] = Append(@, [role |-> "user", content |-> t, conv |-> conv])]
    /\ sessions' = ensure_defaults(sessions, session_id)
    /\ response' = [op |-> op, id |-> session_id, status |-> 200,
                    stage |-> sessions'[session_id][1]["stage"].e]
    /\ UNCHANGED OneSession

\* POST /message: the turn runs under the session id of the request
HttpTurn == \E conv \in Conversations : RecordUser(conv, conv, U_hi, "message")

\* a voice call served by CerebrasLLMStream: the turn runs under "livekit_voice"
VoiceTurn == \E conv \in Conversations : RecordUser(LIVEKIT_VOICE, conv, U_hi, "voice")

\* GET /session/{session_id}: not found unless the session is known
GetSession ==
    \E session_id \in SessionIds :
        LET info == get_session_info(sessions, session_store, session_id) IN
        /\ response' = IF info = "None"
                       THEN [op |-> "get", id |-> session_id, status |-> 404, stage |-> ""]
                       ELSE [op |-> "get", id |-> session_id, status |-> 200, stage |-> info]
        /\ UNCHANGED <<session_store, sessions>>
        /\ UNCHANGED OneSession

NextSessions == HttpTurn \/ VoiceTurn \/ GetSession

SpecSessions == Init /\ [][NextSessions]_vars

\* C17: session isolation.  The messages recorded under one session id all
\* come from one conversation: no turn of a conversation reads or extends
\* the history another conversation wrote.
C17_SessionIsolation ==
    \A id \in SessionIds :
        \A i, j \in 1..Len(session_store[id]) :
            session_store[id][i].conv = session_store[id][j].conv

----------------------------------------------------------------------------
(* The gates of advance_logic, checked under Spec *)

\* C19: intent gate.  When the intent has no smart-jump target in the
\* stage, a turn whose analysis recommends to advance with an intent outside
\* the stage's allowed advance intents leaves the session's stage as it was,
\* whatever the exit-condition fields hold.
C19_IntentGate ==
    [][TurnCompletes =>
        LET A == metadata'["last_analysis"].d
        IN  (/\ A.recommended_action = "advance"
             /\ A.intent \notin ALLOWED_ADVANCE_INTENTS(final_stage)
             /\ TargetStage(final_stage, A.intent) = "None")
            => ToStage(get_metadata(metadata', "stage")) = final_stage]_vars

\* C20: exit-condition gate.  When the intent has no smart-jump target in
\* the stage, a turn that ends with a required field of its stage unknown
\* leaves the session's stage as it was, unless every unknown required field
\* is role or company and the intent is sharing_pain or interest.
C20_ExitConditionGate ==
    [][TurnCompletes =>
        LET A == metadata'["last_analysis"].d
            required_info == EXIT_CONDITIONS(final_stage)
        IN  (/\ TargetStage(final_stage, A.intent) = "None"
             /\ \E i \in 1..Len(required_info) :
                    /\ ~ Truthy(get_metadata(metadata', required_info[i]))
                    /\ ~ (/\ required_info[i] \in {"role", "company"}
                          /\ A.intent \in {"sharing_pain", "interest"}))
            => ToStage(get_metadata(metadata', "stage")) = final_stage]_vars

----------------------------------------------------------------------------
(* The guardrail layers of generate_stream *)

\* the greeting-loop counter as stored, 0 when it was never written
StoredGreetingCount(md) ==
    IF get_metadata(md, "greeting_loop_count").t = "int"
    THEN get_metadata(md, "greeting_loop_count").n
    ELSE 0

\* C21: loop breaker.  While the reply of a turn is generated, the prompt
\* composed for the turn holds the pattern-interrupt instruction if and only
\* if the greeting-loop counter exceeds 3 and the user's text is a generic
\* greeting.
C21_PatternInterrupt ==
    pc = "streaming" =>
        (HasLayer(system_prompt, "PATTERN_INTERRUPT_MODIFIER") <=>
            /\ StoredGreetingCount(metadata) > 3
            /\ is_generic_greeting(text))

\* the turns of a session in SpecGuard
MaxGuardTurns == 3

\* user texts of every class: a greeting, a text that is in the list of
\* is_substantive but not in the list of is_generic_greeting, a long text
GuardTexts == {U_hi, U_inquiry, U_long}

\* replies without an analysis: a sentence, a bare greeting of the list of
\* perceptual recovery, a bare greeting outside that list
R_hello == <<"H","e","l","l","o">>
R_hello_q == <<"H","e","l","l","o","?">>
\* and a reply whose analysis takes the session out of Greeting
R_affirm == Reply(H_ok, Analysis("affirmation", "stay", InfoNothing))
GuardContents == {R_plain, R_hello, R_hello_q, R_affirm}

GuardTurn ==
    \E t \in GuardTexts, c \in GuardContents :
        turn_no < MaxGuardTurns /\ BeginTurn(t, c)

NextGuard == GuardTurn \/ WholeToken \/ EndStream \/ GenerationFails

SpecGuard == Init /\ [][NextGuard]_vars

\* the generic greetings in a row that end the user messages of h
RECURSIVE TrailingGreetings(_)
TrailingGreetings(h) ==
    IF h = <<>> THEN 0
    ELSE LET last == h[Len(h)]
             rest == SubSeq(h, 1, Len(h) - 1)
         IN  IF last.role # "user" THEN TrailingGreetings(rest)
             ELSE IF is_generic_greeting(last.content) THEN 1 + TrailingGreetings(rest)
             ELSE 0

\* C22: input classification.  The text of every turn is exactly one of
\* generic greeting and substantive, and once the bookkeeping of a turn is
\* done the greeting-loop counter equals the number of generic greetings in
\* a row that end the session's user inputs.
C22_GreetingCounter ==
    pc # "idle" =>
        /\ is_generic_greeting(text) # is_substantive(text)
        /\ StoredGreetingCount(metadata) = TrailingGreetings(history)

\* C23: perceptual recovery.  While the reply of a turn is generated, the
\* prompt composed for the turn holds the recovery instruction if and only if
\* the user's text is substantive and the message before it in the history is
\* an assistant message that is, trimmed and in lower case, a generic greeting.
C23_PerceptualRecovery ==
    pc = "streaming" =>
        (HasLayer(system_prompt, "PERCEPTUAL_RECOVERY_MODIFIER") <=>
            /\ is_substantive(text)
            /\ Len(history) >= 2
            /\ history[Len(history) - 1].role = "assistant"
            /\ Lower(Strip(history[Len(history) - 1].content)) \in GenericGreetings)

\* C24: substantive wins.  While the reply of a turn is generated, the
\* prompt composed for the turn never holds both the stall-nudge layer and
\* the substantive-input override, and holds no nudge when the user's text
\* is substantive, even with the turns in the stage in the stall window.
C24_SubstantiveWins ==
    pc = "streaming" =>
        /\ ~ (/\ HasLayer(system_prompt, "NUDGE_MODIFIER")
              /\ HasLayer(system_prompt, "USER_IS_MAKING_PROGRESS"))
        /\ is_substantive(text) => ~ HasLayer(system_prompt, "NUDGE_MODIFIER")

\* a substantive text in the stall window of a stage that is not Closing: the
\* override is in the prompt and the nudge is not
C24_Witness ==
    /\ pc = "streaming"
    /\ is_substantive(text)
    /\ final_stage # CLOSING
    /\ NudgeText(stage_turns, final_stage)
    /\ HasLayer(system_prompt, "USER_IS_MAKING_PROGRESS")
    /\ ~ HasLayer(system_prompt, "NUDGE_MODIFIER")

\* C25: nudge cap.  While the stored stage stays the same the stall nudge is
\* composed into the prompts of at most two turns, a prompt composed with
\* more than 4 turns in the stage holds no nudge, and the turns in the stage
\* do not go down before the stage changes.
C25_NudgeCap ==
    [][/\ nudged' <= 2
       /\ (pc' = "streaming" /\ stage_turns' > 4)
              => ~ HasLayer(system_prompt', "NUDGE_MODIFIER")
       /\ (ToStage(get_metadata(metadata', "stage")) =
               ToStage(get_metadata(metadata, "stage")))
              => stage_turns' >= stage_turns]_vars

\* the second nudged prompt of one stay: the turn before was nudged and its
\* generation failed, so this turn is composed with 4 turns in the stage
C25_Witness ==
    /\ pc = "streaming"
    /\ nudged = 2
    /\ stage_turns = 4
    /\ final_stage # CLOSING
    /\ HasLayer(system_prompt, "NUDGE_MODIFIER")

----------------------------------------------------------------------------
(* The demultiplexer once a marker is found, checked under SpecStream *)

\* C26: ParsingAnalysis is absorbing.  At the token after which the buffer
\* holds an analysis marker, the chunk yielded is the buffer up to its first
\* marker; from then on no token and no end of stream yields a chunk, and
\* the state is left only by the next turn.
C26_ParsingAbsorbing ==
    [][/\ (pc = "streaming" /\ ~ is_parsing_analysis /\ is_parsing_analysis')
              => LET buf == safeguard_buffer \o SubSeq(stream, pos + 1, pos')
                 IN  /\ last_chunk' = SubSeq(buf, 1, MarkerStart(buf))
                     /\ yielded' = yielded \o last_chunk'
       /\ (is_parsing_analysis /\ turn_no' = turn_no)
              => /\ is_parsing_analysis'
                 /\ yielded' = yielded
                 /\ last_chunk' = <<>>]_vars

\* C27: whole words.  A chunk yielded by a token while the demultiplexer is
\* in Speaking ends at a whitespace boundary of the stream: its last
\* character or the character after it is whitespace, or the stream ends there.
C27_ChunksEndAtWhitespace ==
    (pc = "streaming" /\ ~ is_parsing_analysis /\ last_chunk # <<>>) =>
        LET n == Len(yielded)
        IN  \/ n = Len(stream)
            \/ stream[n] \in Whitespace
            \/ stream[n + 1] \in Whitespace

----------------------------------------------------------------------------
(* The composer on sessions of every stage, checked under SpecCompose *)

\* the turns in the stage a session of SpecCompose may begin with
MaxStageTurns == 5

\* the text create_session may store as custom_prompt
CustomPrompts == {NoneV, StrV("be brief")}

\* the metadata of the sessions of SpecCompose: every stage, with and
\* without a custom prompt and the value-presented flag, and locked only in
\* Closing
ComposeMetadata ==
    { [DefaultMetadata EXCEPT !["stage"] = StageV(s),
                              !["custom_prompt"] = cp,
                              ![PRICING_GATE_METADATA_KEY] = vp,
                              ![SESSION_END_KEY] = lock] :
        s \in SalesStage, cp \in CustomPrompts, vp \in {NoneV, BoolV(TRUE)},
        lock \in {NoneV, BoolV(TRUE)} }

\* the messages of a session that has n turns in its stage: the exchange
\* that took it out of Greeting, then user and assistant in turn
ComposeHistory(s, n) ==
    (IF s = GREETING THEN <<>>
     ELSE <<[role |-> "user", content |-> U_long],
            [role |-> "assistant", content |-> H_plain]>>)
    \o [i \in 1..n |-> IF i % 2 = 1 THEN [role |-> "user", content |-> U_hi]
                       ELSE [role |-> "assistant", content |-> H_plain]]

InitCompose ==
    /\ metadata \in ComposeMetadata
    /\ Truthy(get_metadata(metadata, SESSION_END_KEY))
           => get_metadata(metadata, "stage") = StageV(CLOSING)
    /\ stage_turns \in 0..MaxStageTurns
    /\ history = ComposeHistory(get_metadata(metadata, "stage").e, stage_turns)
    /\ before = metadata
    /\ pc = "idle"
    /\ text = <<>>
    /\ stream = <<>>
    /\ pos = 0
    /\ full_response_buffer = <<>>
    /\ safeguard_buffer = <<>>
    /\ is_parsing_analysis = FALSE
    /\ tokens_yielded = 0
    /\ yielded = <<>>
    /\ last_chunk = <<>>
    /\ final_stage = GREETING
    /\ system_prompt = <<>>
    /\ turn_no = 0
    /\ advanced_to = <<>>
    /\ rival = NoCall
    /\ session_store = [id \in SessionIds |-> <<>>]
    /\ sessions = [id \in SessionIds |-> <<>>]
    /\ response = NoResponse
    /\ nudged = 0
    /\ voice = NoVoice
    /\ legacy = <<>>

\* one turn of such a session, on a text of any class
ComposeTurn == \E t \in GuardTexts : turn_no = 0 /\ BeginTurn(t, R_plain)

NextCompose == ComposeTurn \/ WholeToken \/ EndStream

SpecCompose == InitCompose /\ [][NextCompose]_vars

\* the place of a layer in the order of the composer's contract, 0 for a
\* layer the contract does not list
LayerRank(name) ==
    CASE name = "DETERMINISTIC_SYSTEM_PROMPT" -> 1
      [] name \in {"BASE_AGENT_PROMPT", "PERSONA_INSTRUCTIONS"} -> 2
      [] name = "USER_CONTEXT" -> 3
      [] name \in {STAGE_PROMPTS(s) : s \in SalesStage} -> 4
      [] name = "SEMANTIC_LOCK_MODIFIER" -> 5
      [] name \in {"Value Presented: True", "Value Presented: False",
                   "PRICING_GATE_MODIFIER"} -> 6
      [] name = "NUDGE_MODIFIER" -> 7
      [] name = "CLOSING_STEP_MODIFIER" -> 8
      [] name = "BEHAVIORAL_REFINEMENT_PROMPT" -> 9
      [] name = "COMBINED_ANALYSIS_INSTRUCTION" -> 10
      [] OTHER -> 0

\* C28: layer order.  In the prompt composed for a turn the layers of the
\* contract that are present stand in the contract's order: the
\* deterministic contract, the persona with the caller's persona text, the
\* user context, the stage goal, the semantic lock, the pricing gate, the
\* nudge, the closing finality, the behavioural rules and, last of all, the
\* analysis instruction; and the prompt is a function of the stage, the
\* metadata and the guardrail flags.
C28_LayerOrder ==
    pc = "streaming" =>
        /\ \A i, j \in 1..Len(system_prompt) :
              (i < j /\ LayerRank(system_prompt[i]) # 0 /\ LayerRank(system_prompt[j]) # 0)
                  => LayerRank(system_prompt[i]) <= LayerRank(system_prompt[j])
        /\ system_prompt[Len(system_prompt)] = "COMBINED_ANALYSIS_INSTRUCTION"
        /\ system_prompt =
               ComposePrompt(history, metadata, stage_turns, text,
                             StoredGreetingCount(metadata))

\* C29: stage goal.  The prompt composed for a turn holds the goal
\* instruction of the session's stage and the goal instruction of no other
\* stage.
C29_StageGoal ==
    pc = "streaming" =>
        /\ HasLayer(system_prompt, STAGE_PROMPTS(final_stage))
        /\ \A s \in SalesStage \ {final_stage} :
               ~ HasLayer(system_prompt, STAGE_PROMPTS(s))

----------------------------------------------------------------------------
(* The control state of the session, checked under Spec *)

\* C30: facts only.  A completed turn changes the stored stage only by a
\* call of advance_stage and to the stage of that call, leaves the
\* greeting-loop counter as the bookkeeping set it, and sets the
\* session-locked flag only in Closing with meeting_locked known: the
\* extracted facts of the analysis write no control state.
C30_FactsOnly ==
    [][TurnCompletes =>
        /\ advanced_to' = <<>>
              => ToStage(get_metadata(metadata', "stage")) = final_stage
        /\ advanced_to' # <<>>
              => ToStage(get_metadata(metadata', "stage")) = advanced_to'[Len(advanced_to')]
        /\ get_metadata(metadata', "greeting_loop_count") =
               get_metadata(metadata, "greeting_loop_count")
        /\ get_metadata(metadata', SESSION_END_KEY) # get_metadata(metadata, SESSION_END_KEY)
              => final_stage = CLOSING /\ Truthy(get_metadata(metadata', "meeting_locked"))]_vars

----------------------------------------------------------------------------
(* The funnel over a sequence of turns, checked under Spec *)

\* the place of a stage in the funnel, 0 for a value that names no stage
StageRank(stage) ==
    CASE stage = GREETING -> 1
      [] stage = QUALIFICATION -> 2
      [] stage = PROBLEM -> 3
      [] stage = SOLUTION -> 4
      [] stage = OBJECTION -> 5
      [] stage = CLOSING -> 6
      [] OTHER -> 0

\* the stored stage of the session
StoredStage(md) == ToStage(get_metadata(md, "stage"))

\* C31: monotone funnel.  No step of a sequence of turns moves the stored
\* stage to an earlier stage of the funnel; a turn calls advance_stage at
\* most once; and a changed stage is the default successor of the stage it
\* replaces or, from Greeting, one of the smart-jump targets.
C31_MonotoneFunnel ==
    [][LET old == StoredStage(metadata)
           new == StoredStage(metadata')
       IN  /\ StageRank(new) >= StageRank(old)
           /\ Len(advanced_to') <= 1
           /\ new # old =>
                 \/ (ALLOWED_TRANSITIONS(old) # <<>> /\ new = ALLOWED_TRANSITIONS(old)[1])
                 \/ (old = GREETING /\ new \in {QUALIFICATION, PROBLEM})]_vars

\* C32: the session-locked flag.  After every step the flag is set only if
\* the stored stage is Closing, and a step that starts with the flag set
\* ends with the flag set.
C32_LockedOnlyInClosing ==
    [][/\ Truthy(get_metadata(metadata', SESSION_END_KEY))
             => StoredStage(metadata') = CLOSING
       /\ Truthy(get_metadata(metadata, SESSION_END_KEY))
             => Truthy(get_metadata(metadata', SESSION_END_KEY))]_vars

----------------------------------------------------------------------------
(* The stage a turn advances from, checked under SpecConc *)

\* C33: no stale stage.  A call that runs its steps 5 to 9 evaluates the
\* stage the session holds at that moment, and no step of two interleaved
\* calls moves the stored stage to an earlier stage of the funnel or out of
\* Closing.
C33_NoStaleStage ==
    [][LET old == StoredStage(metadata)
           new == StoredStage(metadata')
       IN  /\ (pc = "streaming" /\ pc' # "streaming") => final_stage = old
           /\ (rival.pc = "streaming" /\ rival'.pc # "streaming") => rival.final_stage = old
           /\ StageRank(new) >= StageRank(old)
           /\ old = CLOSING => new = CLOSING]_vars

----------------------------------------------------------------------------
(* One turn of a session of any stage, checked under SpecFacts *)

\* the facts a session holds when it is in a stage: those the stages it
\* has left cannot be left without
PassedFacts(stage) ==
    (IF StageRank(stage) >= 4 THEN {"pain_points"} ELSE {}) \cup
    (IF StageRank(stage) >= 5 THEN {"value_accepted", PRICING_GATE_METADATA_KEY} ELSE {}) \cup
    (IF StageRank(stage) >= 6 THEN {"concerns_addressed"} ELSE {})

\* the value a session of SpecFacts holds under a key it knows
StoredFact(k) ==
    CASE k = "role" -> StrV("ceo")
      [] k = "company" -> StrV("initech")
      [] k = "pain_points" -> StrV("slow replies")
      [] OTHER -> BoolV(TRUE)

\* the metadata of the sessions of SpecFacts: every stage, with the facts
\* of the stages left, with and without the identity and the pain points
FactsMetadata ==
    { [k \in MetaKeys |->
          IF k = "stage" THEN StageV(s)
          ELSE IF k \in PassedFacts(s) \cup known THEN StoredFact(k)
          ELSE NoneV] :
        s \in SalesStage,
        known \in {{}, {"role", "company"}, {"pain_points"},
                   {"role", "company", "pain_points"}} }

\* the analyses of the turns of SpecFacts
FactsAnalyses ==
    { Analysis("interest", "advance", InfoIdentity),
      Analysis("objection", "advance", InfoIdentity),
      Analysis("sharing_pain", "advance", InfoPain),
      Analysis("providing_info", "advance", InfoNothing),
      Analysis("interest", "advance", InfoNulls),
      Analysis("affirmation", "advance", InfoValue),
      Analysis("affirmation", "advance", InfoMeeting) }

InitFacts ==
    /\ metadata \in FactsMetadata
    /\ stage_turns = 0
    /\ history = ComposeHistory(get_metadata(metadata, "stage").e, 0)
    /\ before = metadata
    /\ pc = "idle"
    /\ text = <<>>
    /\ stream = <<>>
    /\ pos = 0
    /\ full_response_buffer = <<>>
    /\ safeguard_buffer = <<>>
    /\ is_parsing_analysis = FALSE
    /\ tokens_yielded = 0
    /\ yielded = <<>>
    /\ last_chunk = <<>>
    /\ final_stage = GREETING
    /\ system_prompt = <<>>
    /\ turn_no = 0
    /\ advanced_to = <<>>
    /\ rival = NoCall
    /\ session_store = [id \in SessionIds |-> <<>>]
    /\ sessions = [id \in SessionIds |-> <<>>]
    /\ response = NoResponse
    /\ nudged = 0
    /\ voice = NoVoice
    /\ legacy = <<>>

\* one turn of such a session
FactsTurn == \E A \in FactsAnalyses : turn_no = 0 /\ BeginTurn(U_long, Reply(H_ok, A))

NextFacts == FactsTurn \/ WholeToken \/ EndStream

SpecFacts == InitFacts /\ [][NextFacts]_vars

\* C34: facts before gates.  A completed turn stores every non-null fact
\* of its analysis and leaves the stored value of every null one; a turn
\* that recommends to advance with an allowed intent and supplies a required
\* field of its stage that was unknown, every other required field being
\* known, advances the session; and a turn in Closing whose analysis
\* supplies meeting_locked ends with the session-locked flag set.
C34_FactsBeforeGates ==
    [][TurnCompletes =>
        LET A == metadata'["last_analysis"].d
            info == ExtractedInfo(A)
            supplied(k) == k \in DOMAIN info /\ Truthy(info[k])
            known(k) == supplied(k) \/ Truthy(get_metadata(metadata, k))
            required_info == EXIT_CONDITIONS(final_stage)
        IN  /\ \A k \in DOMAIN info \cap FactKeys :
                   get_metadata(metadata', k) =
                       IF info[k].t = "none" THEN get_metadata(metadata, k) ELSE info[k]
            /\ (/\ final_stage # CLOSING
                /\ A.recommended_action = "advance"
                /\ A.intent \in ALLOWED_ADVANCE_INTENTS(final_stage)
                /\ \A i \in 1..Len(required_info) : known(required_info[i])
                /\ \E i \in 1..Len(required_info) :
                       /\ supplied(required_info[i])
                       /\ ~ Truthy(get_metadata(metadata, required_info[i])))
                   => /\ advanced_to' = <<ALLOWED_TRANSITIONS(final_stage)[1]>>
                      /\ StoredStage(metadata') = ALLOWED_TRANSITIONS(final_stage)[1]
            /\ (final_stage = CLOSING /\ supplied("meeting_locked"))
                   => Truthy(get_metadata(metadata', SESSION_END_KEY))]_vars

\* a turn in Problem supplied the pain points that were unknown and the
\* session moved to Solution
C34_Witness ==
    /\ pc = "done"
    /\ final_stage = PROBLEM
    /\ ~ Truthy(get_metadata(before, "pain_points"))
    /\ Truthy(get_metadata(metadata, "pain_points"))
    /\ StoredStage(metadata) = SOLUTION

----------------------------------------------------------------------------
(* A cooperative conversation, checked under SpecFunnel *)

\* the turns of a session of SpecFunnel
MaxFunnelTurns == 6

\* the analysis recommends to advance with an intent allowed for the stage
\* and supplies every exit-condition fact of the stage
Cooperative(stage, A) ==
    /\ A.recommended_action = "advance"
    /\ A.intent \in ALLOWED_ADVANCE_INTENTS(stage)
    /\ A.extracted_info.t = "dict"
    /\ "stage" \notin DOMAIN A.extracted_info.d
    /\ \A i \in 1..Len(EXIT_CONDITIONS(stage)) :
           /\ EXIT_CONDITIONS(stage)[i] \in DOMAIN A.extracted_info.d
           /\ Truthy(A.extracted_info.d[EXIT_CONDITIONS(stage)[i]])

\* a turn whose analysis is cooperative for the session's stage; in Closing,
\* where no intent advances, an analysis cooperative for some stage
FunnelTurn ==
    \E A \in KnownAnalyses :
        /\ turn_no < MaxFunnelTurns
        /\ pc \in {"idle", "done"}
        /\ IF StoredStage(metadata) = CLOSING
           THEN \E s \in SalesStage : Cooperative(s, A)
           ELSE Cooperative(StoredStage(metadata), A)
        /\ BeginTurn(U_long, Reply(H_ok, A))

NextFunnel == FunnelTurn \/ WholeToken \/ EndStream

\* the step of FunnelTurn, told by the count of the turns
TurnBegins ==
    pc \in {"idle", "done"} /\ turn_no < MaxFunnelTurns /\ turn_no' = turn_no + 1

\* the step of WholeToken, told by the position in the stream
TokenArrives == pc = "streaming" /\ pos = 0 /\ pos' = Len(stream)

\* the step of EndStream, told by the position of the call
StreamEnds == pc = "streaming" /\ pos = Len(stream) /\ pc' \in {"done", "raised"}

\* the session is processed turn by turn: the next turn begins, the reply
\* of the generation service arrives and the call runs to its end
SpecFunnel ==
    Init /\ [][NextFunnel]_vars
         /\ WF_turn_no(TurnBegins) /\ WF_pos(TokenArrives) /\ WF_pc(StreamEnds)

\* C35: a cooperative conversation reaches Closing and stays there, and it
\* is in Closing when five turns are completed: one turn at most for each
\* stage that is not terminal.
C35_ReachesClosing ==
    /\ <>[](StoredStage(metadata) = CLOSING)
    /\ []((turn_no >= 5 /\ pc = "done") => StoredStage(metadata) = CLOSING)
    /\ [][StoredStage(metadata) = CLOSING => StoredStage(metadata') = CLOSING]_vars

\* the fifth turn, begun in Objection, took the session to Closing
C35_Witness ==
    /\ pc = "done"
    /\ turn_no = 5
    /\ final_stage = OBJECTION
    /\ advanced_to = <<CLOSING>>
    /\ StoredStage(metadata) = CLOSING

----------------------------------------------------------------------------
(* The voice bridge: SalesLLM and SalesLLMStream._run                       *)
(* (backend-python/app/agent/sales_llm.py).  The chat context is held by    *)
(* the voice framework, which puts the transcripts of the user in it while  *)
(* a stream waits and while it runs.                                        *)

\* the runs of a SalesLLM in SpecVoice, the transcripts the framework
\* delivers and the iterations of the wait loop of a run
MaxRuns == 2
MaxTranscripts == 3
MaxPolls == 2

U_um == <<"u","m">>

\* the transcripts of SpecVoice: a short word, a filler, a sentence
VoiceTexts == {U_hi, U_um, U_long}

\* the tokens of the generation service in the runs of SpecVoice
V_plain == << <<"H","i"," ">>, <<"t","h","e","r","e","."," ">>, <<"H","o","w"," ">>, <<"a","r","e"," ">>, <<"y","o","u"," ">>, <<"t","o","d","a","y","?">> >>
V_word == << <<"H","i"," ">>, <<"t","h","e","r","e"," ">>, <<"f","r","i","e","n","d"," ">>, R_word, <<"i","o","u","s"," ">> >>
V_reply == << <<"S","u","r","e",","," ">>, <<"w","e"," ">>, <<"c","a","n"," ">>, <<"h","e","l","p"," ">>, <<"y","o","u","."," ">>, OPEN_TAG \o Json(A_advance) \o CLOSE_TAG >>
V_list == << <<"H","i"," ">>, <<"t","h","e","r","e"," ">>, <<"f","r","i","e","n","d"," ">>, <<"c","a","l","l","s">>, OPEN_TAG \o <<"[","]">> \o CLOSE_TAG >>

\* a call of the generation service: its tokens, and whether the service
\* raises after them
VoiceReplies ==
    { [tokens |-> V_plain, fails |-> FALSE],
      [tokens |-> V_word, fails |-> FALSE],
      [tokens |-> V_reply, fails |-> FALSE],
      [tokens |-> V_list, fails |-> FALSE],
      [tokens |-> SubSeq(V_word, 1, 4), fails |-> TRUE] }

RECURSIVE Join(_)
\* "".join(parts)
Join(parts) == IF parts = <<>> THEN <<>> ELSE Head(parts) \o Join(Tail(parts))

RECURSIVE GenYields(_, _, _, _, _)
\* the chunks generate_stream yields on the tokens of a call: the token
\* loop, then the flush when the service ends without raising
GenYields(g, i, buf, parsing, acc) ==
    IF i > Len(g.tokens)
    THEN IF buf # <<>> /\ ~ parsing /\ ~ g.fails THEN Append(acc, buf) ELSE acc
    ELSE IF parsing
    THEN GenYields(g, i + 1, buf, parsing, acc)
    ELSE LET r == DemuxStep(buf \o g.tokens[i], i)
         IN  GenYields(g, i + 1, r.buf, r.parsing,
                       IF r.chunk # <<>> THEN Append(acc, r.chunk) ELSE acc)

\* the noise gate of _run: the transcript is dropped
NoiseGate(user_msg) ==
    LET clean_msg == Lower(Strip(user_msg))
    IN  \/ (Len(clean_msg) < 3
            /\ clean_msg \notin {<<"o","k">>, <<"h","i">>, <<"n","o">>, <<"g","o">>, <<"i">>})
        \/ clean_msg \in {<<"u","h">>, <<"u","m">>, <<"a","h">>, <<"o","h">>,
                          <<".",".">>, <<".",".",".">>}

\* any(p in token for p in [" ", ".", "!", "?", ",", "\n"])
ChunkEnds == {" ", ".", "!", "?", ",", "\n"}

NOTICE == <<"A","c","t","u","a","l","l","y",","," ","w","a","i","t",","," ","I"," ","t","h","i","n","k"," ","I"," ","m","i","s","s","e","d"," ","t","h","a","t"," ","f","i","r","s","t"," ","p","a","r","t","."," ">>

\* _send_chunk(content) on the event channel of the run v
SendChunk(v, content) ==
    [v EXCEPT !.sent = Append(@, content),
              !.sent_closed = @ \/ v.closed > 0]

\* a close that does nothing
CloseChannel_Never(v) == v

\* self._event_ch.close()
CloseChannel(v) == [v EXCEPT !.closed = @ + 1]

\* the body of the streaming loop after the late-correction check: hybrid
\* chunking of a token; v.tokens_yielded counts the token already
HybridChunk(v, token) ==
    IF v.tokens_yielded <= 3
    THEN SendChunk(v, token)
    ELSE IF \E i \in 1..Len(token) : token[i] \in ChunkEnds
    THEN [SendChunk(v, v.chunk_buffer \o token) EXCEPT !.chunk_buffer = <<>>]
    ELSE [v EXCEPT !.chunk_buffer = @ \o token]

\* the late-correction check: every fifth token, a transcript much longer
\* than the one the run began with is in the chat context
LateCorrection(v) ==
    /\ v.tokens_yielded % 5 = 0
    /\ v.ctx # NoneV
    /\ Len(v.ctx.s) > Len(v.initial_msg) + 15

\* what the framework does: a transcript becomes the most recent user
\* message of the chat context
Transcript(t) ==
    /\ voice.heard < MaxTranscripts
    /\ voice.pc \in {"idle", "waiting", "streaming", "closed"}
    /\ voice' = [voice EXCEPT !.ctx = StrV(t), !.heard = @ + 1]
    /\ UNCHANGED <<history, metadata, stage_turns, pc, text, stream, pos,
                   full_response_buffer, safeguard_buffer, is_parsing_analysis,
                   tokens_yielded, yielded, last_chunk, final_stage, system_prompt,
                   turn_no, advanced_to, rival, before, session_store, sessions,
                   response, nudged, legacy>>

\* chat() makes a SalesLLMStream and its _run begins
RunStart ==
    /\ voice.pc \in {"idle", "closed"}
    /\ voice.run_no < MaxRuns
    /\ voice' = [voice EXCEPT !.pc = "waiting", !.user_msg = NoneV, !.polls = 0,
                              !.all_stale = TRUE, !.initial_msg = <<>>,
                              !.gen = [tokens |-> <<>>, fails |-> FALSE],
                              !.yields = <<>>, !.tokens_yielded = 0,
                              !.chunk_buffer = <<>>, !.sent = <<>>,
                              !.received = <<>>, !.closed = 0,
                              !.sent_closed = FALSE, !.notice_at = 0,
                              !.packet = 0, !.publish_failed = FALSE,
                              !.path = "none", !.invoked = FALSE,
                              !.run_no = @ + 1, !.hist_len = Len(history)]
    /\ before' = metadata
    /\ UNCHANGED <<history, metadata, stage_turns, pc, text, stream, pos,
                   full_response_buffer, safeguard_buffer, is_parsing_analysis,
                   tokens_yielded, yielded, last_chunk, final_stage, system_prompt,
                   turn_no, advanced_to, rival, session_store, sessions,
                   response, nudged, legacy>>

\* one iteration of the wait loop of _run
Poll ==
    /\ voice.pc = "waiting"
    /\ voice.polls < MaxPolls
    /\ LET stale == voice.ctx # NoneV /\ voice.ctx = voice.last_transcript
                    /\ voice.ctx.s # <<>>
           found == voice.ctx # NoneV /\ ~ stale /\ Strip(voice.ctx.s) # <<>>
       IN  voice' = [voice EXCEPT
                        !.polls = @ + 1,
                        !.all_stale = @ /\ stale,
                        !.user_msg = IF found THEN voice.ctx ELSE @,
                        !.pc = IF found /\ Len(voice.ctx.s) > 5 THEN "gate" ELSE "waiting"]
    /\ UNCHANGED <<history, metadata, stage_turns, pc, text, stream, pos,
                   full_response_buffer, safeguard_buffer, is_parsing_analysis,
                   tokens_yielded, yielded, last_chunk, final_stage, system_prompt,
                   turn_no, advanced_to, rival, before, session_store, sessions,
                   response, nudged, legacy>>

\* after the wait loop: the tracker, the redundancy skip, the noise gate and
\* the call of generate_stream, which runs to its request for tokens
Gate(g) ==
    /\ voice.pc = "gate" \/ (voice.pc = "waiting" /\ voice.polls >= 1)
    /\ LET found == voice.user_msg # NoneV
           tracked == [voice EXCEPT !.last_transcript = IF found THEN voice.user_msg ELSE @]
           user_msg == IF found THEN voice.user_msg.s ELSE <<>>
       IN  IF ~ found /\ voice.ctx # NoneV
           THEN /\ voice' = [CloseChannel(tracked) EXCEPT !.pc = "closed", !.path = "skip"]
                /\ UNCHANGED <<history, metadata, stage_turns, final_stage>>
           ELSE IF user_msg # <<>> /\ NoiseGate(user_msg)
           THEN /\ voice' = [CloseChannel(tracked) EXCEPT !.pc = "closed", !.path = "noise"]
                /\ UNCHANGED <<history, metadata, stage_turns, final_stage>>
           ELSE /\ voice' = [tracked EXCEPT !.pc = "streaming", !.invoked = TRUE,
                                            !.initial_msg = user_msg, !.gen = g,
                                            !.yields = GenYields(g, 1, <<>>, FALSE, <<>>)]
                /\ history' = add_message(history, "user", user_msg)
                /\ stage_turns' = stage_turns + 1
                /\ metadata' = LoopBookkeeping(metadata, user_msg)
                /\ final_stage' = ToStage(get_metadata(metadata, "stage"))
    /\ UNCHANGED <<pc, text, stream, pos, full_response_buffer, safeguard_buffer,
                   is_parsing_analysis, tokens_yielded, yielded, last_chunk,
                   system_prompt, turn_no, advanced_to, rival, before,
                   session_store, sessions, response, nudged, legacy>>

\* one iteration of `async for token in sales_agent.generate_stream(...)`
Receive ==
    /\ voice.pc = "streaming"
    /\ voice.yields # <<>>
    /\ LET token == Head(voice.yields)
           v == [voice EXCEPT !.yields = Tail(@), !.tokens_yielded = @ + 1,
                              !.received = @ \o token]
       IN  voice' = IF LateCorrection(v)
                    THEN [SendChunk(v, NOTICE) EXCEPT !.pc = "after_loop",
                                                      !.path = "late",
                                                      !.notice_at = Len(v.sent) + 1]
                    ELSE HybridChunk(v, token)
    /\ UNCHANGED <<history, metadata, stage_turns, pc, text, stream, pos,
                   full_response_buffer, safeguard_buffer, is_parsing_analysis,
                   tokens_yielded, yielded, last_chunk, final_stage, system_prompt,
                   turn_no, advanced_to, rival, before, session_store, sessions,
                   response, nudged, legacy>>

\* the generator is resumed after its last chunk: the service raises, or
\* steps 5 to 9 of generate_stream run; an exception reaches the handlers of
\* _run, which log it and close the channel
Exhausted ==
    /\ voice.pc = "streaming"
    /\ voice.yields = <<>>
    /\ LET r == ExtractAnalysis(Join(voice.gen.tokens))
           st == [md |-> metadata, turns |-> stage_turns + 1, moved |-> <<>>]
       IN  IF voice.gen.fails
           THEN /\ voice' = [CloseChannel(voice) EXCEPT !.pc = "closed", !.path = "error"]
                /\ UNCHANGED <<history, metadata, stage_turns>>
           ELSE /\ history' = add_message(history, "assistant", r.human_response)
                /\ IF ItemsRaises(r.analysis)
                   THEN /\ voice' = [CloseChannel(voice) EXCEPT !.pc = "closed",
                                                               !.path = "error"]
                        /\ metadata' = metadata
                        /\ stage_turns' = stage_turns + 1
                   ELSE /\ voice' = [voice EXCEPT !.pc = "after_loop", !.path = "normal",
                                                  !.analysis_run = voice.run_no]
                        /\ metadata' = ApplyAnalysis(st, final_stage, r.analysis.d).md
                        /\ stage_turns' = ApplyAnalysis(st, final_stage, r.analysis.d).turns
    /\ UNCHANGED <<pc, text, stream, pos, full_response_buffer, safeguard_buffer,
                   is_parsing_analysis, tokens_yielded, yielded, last_chunk,
                   final_stage, system_prompt, turn_no, advanced_to, rival, before,
                   session_store, sessions, response, nudged, legacy>>

\* after the loop: the final flush, the intelligence broadcast, whose
\* publish_data raises or not, and the close of the channel
AfterLoop(publish_raises) ==
    /\ voice.pc = "after_loop"
    /\ LET flushed == IF voice.chunk_buffer # <<>>
                      THEN SendChunk(voice, voice.chunk_buffer) ELSE voice
           analysis == get_metadata(metadata, "last_analysis")
           built == IF Truthy(analysis) /\ voice.room
                    THEN [flushed EXCEPT !.packet = voice.analysis_run,
                                         !.publish_failed = publish_raises]
                    ELSE flushed
       IN  voice' = [CloseChannel(built) EXCEPT !.pc = "closed"]
    /\ UNCHANGED <<history, metadata, stage_turns, pc, text, stream, pos,
                   full_response_buffer, safeguard_buffer, is_parsing_analysis,
                   tokens_yielded, yielded, last_chunk, final_stage, system_prompt,
                   turn_no, advanced_to, rival, before, session_store, sessions,
                   response, nudged, legacy>>

NextVoice ==
    \/ \E t \in VoiceTexts : Transcript(t)
    \/ RunStart
    \/ Poll
    \/ \E g \in VoiceReplies : Gate(g)
    \/ Receive
    \/ Exhausted
    \/ \E b \in BOOLEAN : AfterLoop(b)

SpecVoice == Init /\ [][NextVoice]_vars

\* C36: the event channel.  A run that has ended, by whichever path, has
\* closed its channel once; a run that has not ended has not closed it; and
\* no chunk was sent on a closed channel.
C36_ClosedOnce ==
    /\ voice.pc = "closed" => voice.closed = 1
    /\ voice.pc \in {"waiting", "gate", "streaming", "after_loop"} => voice.closed = 0
    /\ ~ voice.sent_closed

\* a run ended by an exception of generate_stream after chunks were sent
C36_Witness ==
    /\ voice.pc = "closed"
    /\ voice.path = "error"
    /\ Len(voice.sent) >= 3
    /\ voice.closed = 1

\* C37: lossless chunking.  A run that called generate_stream and ended
\* without a late correction has sent, in order, exactly the text of the
\* tokens generate_stream yielded.
C37_LosslessChunking ==
    (voice.pc = "closed" /\ voice.invoked /\ voice.notice_at = 0)
        => Join(voice.sent) = voice.received

\* C38: the redundancy guard.  A run whose every look at the chat context
\* found the transcript tracked as last_transcript is skipped: it does not
\* call generate_stream and leaves the messages and the metadata of the
\* session as they were; and last_transcript changes only in a step that
\* calls generate_stream.
C38_RedundancyGuard ==
    [][/\ (voice'.pc = "closed" /\ voice'.polls >= 1 /\ voice'.all_stale)
             => /\ voice'.path = "skip"
                /\ ~ voice'.invoked
                /\ history' = history
                /\ metadata' = metadata
       /\ voice'.last_transcript # voice.last_transcript
             => (voice'.invoked /\ voice'.pc = "streaming")]_vars

\* C39: late correction.  In a run that sent the correction notice the
\* notice is the last chunk sent, and a packet built by the broadcast is
\* built from the analysis of that run.
C39_NoticeIsLast ==
    (voice.pc = "closed" /\ voice.notice_at # 0)
        => /\ voice.notice_at = Len(voice.sent)
           /\ voice.packet # 0 => voice.packet = voice.run_no

----------------------------------------------------------------------------
(* The legacy agent: ConversationSession and SalesAgent.generate            *)
(* (backend-python/agents/sales_agent.py)                                   *)

\* the generate calls on the session in SpecLegacy
MaxLegacyCalls == 4

QualificationFields == {"business_type", "goal", "urgency", "budget_readiness"}

\* ConversationSession.__init__; messages is the number of messages held
ConversationSession ==
    [messages |-> 0,
     qualification_data |-> [k \in QualificationFields |-> "None"],
     current_stage |-> "greeting",
     calls |-> 0, last_text |-> <<>>]

\* the keyword lists of _extract_qualification_data, each keyword with the
\* value it stores, in the order of the source
business_keywords ==
    << <<<<"s","a","a","s">>, "saas">>,
       <<<<"e","-","c","o","m","m","e","r","c","e">>, "e-commerce">>,
       <<<<"e","c","o","m","m","e","r","c","e">>, "ecommerce">>,
       <<<<"a","g","e","n","c","y">>, "agency">>,
       <<<<"s","t","a","r","t","u","p">>, "startup">>,
       <<<<"r","e","t","a","i","l">>, "retail">>,
       <<<<"b","2","b">>, "b2b">>,
       <<<<"b","2","c">>, "b2c">>,
       <<<<"c","o","n","s","u","l","t","i","n","g">>, "consulting">> >>

goal_keywords ==
    << <<<<"g","r","o","w">>, "grow">>,
       <<<<"s","c","a","l","e">>, "scale">>,
       <<<<"i","n","c","r","e","a","s","e">>, "increase">>,
       <<<<"i","m","p","r","o","v","e">>, "improve">>,
       <<<<"a","u","t","o","m","a","t","e">>, "automate">>,
       <<<<"s","a","l","e","s">>, "sales">>,
       <<<<"l","e","a","d","s">>, "leads">>,
       <<<<"c","u","s","t","o","m","e","r","s">>, "customers">>,
       <<<<"r","e","v","e","n","u","e">>, "revenue">> >>

urgency_keywords ==
    << <<<<"u","r","g","e","n","t">>, "high">>,
       <<<<"a","s","a","p">>, "high">>,
       <<<<"s","o","o","n">>, "medium">>,
       <<<<"m","o","n","t","h">>, "medium">>,
       <<<<"w","e","e","k">>, "high">>,
       <<<<"e","v","e","n","t","u","a","l","l","y">>, "low">>,
       <<<<"e","x","p","l","o","r","i","n","g">>, "low">> >>

\* for keyword in keywords: if keyword in user_lower: ...; break
\* (the value of the first keyword that occurs, "None" when none does)
FirstKeyword(keywords, user_lower) ==
    LET hits == {i \in 1..Len(keywords) : Contains(user_lower, keywords[i][1])}
    IN  IF hits = {} THEN "None"
        ELSE keywords[CHOOSE i \in hits : \A j \in hits : i <= j][2]

\* any(word in user_lower for word in words)
AnyWord(words, user_lower) == \E w \in words : Contains(user_lower, w)

\* the value each field takes from a text when the field is extracted
Extracted(k, user_lower) ==
    CASE k = "business_type" ->
             IF AnyWord({<<"b","u","s","i","n","e","s","s">>, <<"c","o","m","p","a","n","y">>}, user_lower)
             THEN "general_business"
             ELSE FirstKeyword(business_keywords, user_lower)
      [] k = "goal" -> FirstKeyword(goal_keywords, user_lower)
      [] k = "urgency" -> FirstKeyword(urgency_keywords, user_lower)
      [] OTHER ->
             IF AnyWord({<<"b","u","d","g","e","t">>, <<"i","n","v","e","s","t">>, <<"s","p","e","n","d">>, <<"p","r","i","c","e">>, <<"c","o","s","t">>}, user_lower)
             THEN IF AnyWord({<<"y","e","s">>, <<"r","e","a","d","y">>, <<"a","p","p","r","o","v","e","d">>, <<"a","l","l","o","c","a","t","e","d">>}, user_lower)
                  THEN "ready"
                  ELSE IF AnyWord({<<"n","o">>, <<"n","o","t"," ","y","e","t">>, <<"t","i","g","h","t">>, <<"l","i","m","i","t","e","d">>}, user_lower)
                  THEN "limited"
                  ELSE "exploring"
             ELSE "None"

\* _extract_qualification_data that extracts every field on every call
extract_qualification_data_NoGuard(session, user_text) ==
    LET user_lower == Lower(user_text)
    IN  [session EXCEPT
            !.current_stage =
                IF @ = "greeting" /\ session.messages > 2 THEN "qualifying" ELSE @,
            !.qualification_data =
                [k \in QualificationFields |->
                    IF Extracted(k, user_lower) # "None"
                    THEN Extracted(k, user_lower) ELSE @[k]]]

\* _extract_qualification_data(session, user_text, agent_response)
extract_qualification_data(session, user_text) ==
    LET user_lower == Lower(user_text)
    IN  [session EXCEPT
            !.current_stage =
                IF @ = "greeting" /\ session.messages > 2 THEN "qualifying" ELSE @,
            !.qualification_data =
                [k \in QualificationFields |->
                    IF @[k] = "None" THEN Extracted(k, user_lower) ELSE @[k]]]

\* the change _build_context_prompt makes to the session
build_context_prompt(session) ==
    IF /\ session.current_stage = "qualifying"
       /\ \A k \in QualificationFields : session.qualification_data[k] # "None"
    THEN [session EXCEPT !.current_stage = "cta"]
    ELSE session

\* what the user says to the legacy agent
L_hi == <<"h","i">>
L_all == <<"O","u","r"," ","S","a","a","S"," ","s","t","a","r","t","u","p"," ","m","u","s","t"," ","g","r","o","w"," ","a","s","a","p",","," ","b","u","d","g","e","t"," ","a","p","p","r","o","v","e","d">>
L_agency == <<"w","e"," ","a","r","e"," ","a","n"," ","a","g","e","n","c","y"," ","e","x","p","l","o","r","i","n","g"," ","c","o","s","t","s">>
L_goal == <<"w","e"," ","w","a","n","t"," ","m","o","r","e"," ","l","e","a","d","s">>
L_week == <<"w","i","t","h","i","n"," ","a"," ","w","e","e","k">>
L_tight == <<"m","o","n","e","y"," ","i","s"," ","t","i","g","h","t",","," ","w","h","a","t"," ","i","s"," ","t","h","e"," ","p","r","i","c","e">>

LegacyTexts == {L_hi, L_all, L_agency, L_goal, L_week, L_tight}

\* SalesAgent.generate(text, session_id); the completion request returns a
\* reply or raises
Generate(user_text, raises) ==
    /\ (IF legacy = <<>> THEN 0 ELSE legacy[1].calls) < MaxLegacyCalls
    /\ LET session == IF legacy = <<>> THEN ConversationSession ELSE legacy[1]
           called == [session EXCEPT !.messages = @ + 1, !.calls = @ + 1,
                                     !.last_text = user_text]
           prompted == build_context_prompt(called)
           replied == [prompted EXCEPT !.messages = @ + 1]
       IN  legacy' = IF raises THEN <<prompted>>
                     ELSE <<extract_qualification_data(replied, user_text)>>
    /\ UNCHANGED <<history, metadata, stage_turns, pc, text, stream, pos,
                   full_response_buffer, safeguard_buffer, is_parsing_analysis,
                   tokens_yielded, yielded, last_chunk, final_stage, system_prompt,
                   turn_no, advanced_to, rival, before, session_store, sessions,
                   response, nudged, voice>>

NextLegacy == \E t \in LegacyTexts, raises \in BOOLEAN : Generate(t, raises)

SpecLegacy == Init /\ [][NextLegacy]_vars

\* the place of a stage of the legacy agent in its order
LegacyRank(stage) ==
    CASE stage = "greeting" -> 1
      [] stage = "qualifying" -> 2
      [] stage = "cta" -> 3
      [] OTHER -> 0

\* C40: the legacy agent.  A generate call leaves the stage or moves it one
\* place along greeting, qualifying, cta; the stage is cta only with the
\* four qualification fields populated; and a populated field keeps its
\* value in every later call.
C40_LegacyStages ==
    [][LET old == IF legacy = <<>> THEN ConversationSession ELSE legacy[1]
           new == legacy'[1]
       IN  /\ LegacyRank(new.current_stage) \in
                  {LegacyRank(old.current_stage), LegacyRank(old.current_stage) + 1}
           /\ LegacyRank(new.current_stage) \in 1..3
           /\ new.current_stage = "cta"
                  => \A k \in QualificationFields : new.qualification_data[k] # "None"
           /\ \A k \in QualificationFields :
                  old.qualification_data[k] # "None"
                      => new.qualification_data[k] = old.qualification_data[k]]_vars

\* the session reached cta, and a later call whose text names another
\* business type left the stored one
C40_Witness ==
    /\ legacy # <<>>
    /\ legacy[1].current_stage = "cta"
    /\ legacy[1].last_text = L_agency
    /\ legacy[1].qualification_data["business_type"] = "saas"

============================================================================
